---------------------------- MODULE Spec2Model ----------------------------
(***************************************************************************)
(* Model of the self-generating UI core of h6tdf:                          *)
(*   - the five-stage generation pipeline (MultiAgentUIGenerator),         *)
(*   - the event-handler resolution chain (resolveEventHandler) and the    *)
(*     generative fallback handler (createRecursiveHandler),               *)
(*   - the store's top-level component list and the recursive cache.       *)
(* Text produced by the language model is a sequence of tokens; JSON       *)
(* extraction, parsing and serialisation are computed on those tokens.     *)
(***************************************************************************)
EXTENDS Integers, Sequences, FiniteSets, TLC

VARIABLES
    ppc,            \* position of the running generateUI call
    pctx,           \* its UIGenerationContext
    pret,           \* what generateUI returned (or that it threw)
    attempts,       \* per step: how many times its operation was invoked
    failures,       \* per step: how many of those invocations threw
    analyzerCalls,  \* outcome of every aiService.analyze call of the run
    synthCalls,     \* outcome of every aiService.generateCode call of the run
    registry,       \* own entries of functionRegistry
    resolved,       \* what the last resolveEventHandler call returned
    currentComponents, \* the store's component list
    dom,            \* ids of the elements present in the document
    cache,          \* the key-value store behind the recursive cache
    hpc,            \* per handler invocation: its position
    hbind,          \* per handler: the (componentId, elementId) it closes over
    hctx,           \* per handler: the captured context
    hres,           \* per handler: the fragment in hand (cached or generated)
    hlog,           \* per handler: the steps it has completed, in order
    hout,           \* per handler: how the invocation ended
    hplaced,        \* per handler: whether it changed the component list
    lastError,      \* the latest store error the cache calls caught and logged
    kctx,           \* two captured contexts handed to createCacheKey
    kkeys,          \* the keys createCacheKey derived for them (none before the call)
    puts,           \* the cacheRecursiveResult calls made on the cache alone, in order
    got,            \* what the latest getCachedRecursiveResult call on it returned
    patchQueue,     \* PatchService.patchQueue
    isProcessing,   \* PatchService.isProcessing
    inFlight,       \* the attemptFix calls that have not settled, oldest first
    fixCache,       \* errorPatchService's fixCache: the fixed code kept per error
    attempted,      \* the positions in taken of the requests attemptFix was called for
    lastFix,        \* the attemptFix call that settled last, with what it returned
    queued,         \* every queuePatch call made, in order
    taken,          \* every request processQueue took off the queue, in order
    targs,          \* the arguments of a captureContextForType call
    tctx,           \* the context it returned (none before the call)
    gcalls,         \* the store's generation calls awaiting their result, oldest first
    mops,           \* how many store operations were started
    mop,            \* the latest store operation that finished, with its arguments
    isGenerating,   \* the store's isGenerating flag
    storeError      \* the store's error field ("" for null)

pvars == <<ppc, pctx, pret, attempts, failures, analyzerCalls, synthCalls>>
rvars == <<registry, resolved>>
kvars == <<kctx, kkeys>>
svars == <<puts, got>>
qvars == <<patchQueue, isProcessing, inFlight, queued, taken, fixCache, attempted,
          lastFix>>
fvars == <<targs, tctx>>
mvars == <<gcalls, mops, mop, isGenerating, storeError>>
hvars == <<currentComponents, dom, cache, hpc, hbind, hctx, hres, hlog, hout,
           hplaced, lastError>>
vars == <<ppc, pctx, pret, attempts, failures, analyzerCalls, synthCalls, registry,
          resolved,
          currentComponents, dom, cache, hpc, hbind, hctx, hres, hlog, hout,
          hplaced, lastError, kctx, kkeys, puts, got,
          patchQueue, isProcessing, inFlight, queued, taken, fixCache, attempted,
          lastFix, targs, tctx,
          gcalls, mops, mop, isGenerating, storeError>>

---------------------------------------------------------------------------
(* Sequences helpers *)

RECURSIVE IndexFrom(_, _, _)
\* least index >= i of tok in s, 0 when there is none (indexOf)
IndexFrom(s, tok, i) ==
    IF i > Len(s) THEN 0
    ELSE IF s[i] = tok THEN i ELSE IndexFrom(s, tok, i + 1)

RECURSIVE LastIndexFrom(_, _, _)
\* greatest index <= i of tok in s, 0 when there is none (lastIndexOf)
LastIndexFrom(s, tok, i) ==
    IF i < 1 THEN 0
    ELSE IF s[i] = tok THEN i ELSE LastIndexFrom(s, tok, i - 1)

Slice(s, a, b) == IF a > b THEN <<>> ELSE SubSeq(s, a, b)

RECURSIVE Dedupe(_)
\* [...new Set(s)]: first occurrences, in order
Dedupe(s) ==
    IF s = <<>> THEN <<>>
    ELSE LET r == Dedupe(SubSeq(s, 1, Len(s) - 1))
         IN  IF \E k \in 1..Len(r) : r[k] = s[Len(s)] THEN r ELSE Append(r, s[Len(s)])

RECURSIVE FilterSeq(_, _)
FilterSeq(s, keep) ==
    IF s = <<>> THEN <<>>
    ELSE (IF Head(s) \in keep THEN <<Head(s)>> ELSE <<>>) \o FilterSeq(Tail(s), keep)

---------------------------------------------------------------------------
(* Language-model text, as tokens *)

\* the markdown code fence
Fence == "fence"
\* JSON values the model can name: component names or ids, and one number
StringAtoms == {"button", "widget", "c1", "c2", "g1", "g2", "meta"}
NonStringAtoms == {"7"}
Atoms == StringAtoms \cup NonStringAtoms
ProseTokens == {"Sorry", "Here"}

\* extractJson: the fenced block if it has content, else [ ... ], else { ... },
\* else the text as it is
extractJson(rawOutput) ==
    LET f1 == IndexFrom(rawOutput, Fence, 1)
        f2 == IF f1 = 0 THEN 0 ELSE IndexFrom(rawOutput, Fence, f1 + 1)
        fenced == IF f2 = 0 THEN <<>> ELSE Slice(rawOutput, f1 + 1, f2 - 1)
        firstBracket == IndexFrom(rawOutput, "[", 1)
        lastBracket == LastIndexFrom(rawOutput, "]", Len(rawOutput))
        firstBrace == IndexFrom(rawOutput, "{", 1)
        lastBrace == LastIndexFrom(rawOutput, "}", Len(rawOutput))
    IN  IF fenced # <<>> THEN fenced
        ELSE IF firstBracket # 0 /\ lastBracket > firstBracket
             THEN SubSeq(rawOutput, firstBracket, lastBracket)
        ELSE IF firstBrace # 0 /\ lastBrace > firstBrace
             THEN SubSeq(rawOutput, firstBrace, lastBrace)
        ELSE rawOutput

\* JSON.parse on tokens: an array or an object of atoms, or a lone atom
JsonParse(text) ==
    LET n == Len(text)
        inner == Slice(text, 2, n - 1)
        atomsOnly == \A k \in 1..Len(inner) : inner[k] \in Atoms
    IN  IF n >= 2 /\ text[1] = "[" /\ text[n] = "]" /\ atomsOnly
            THEN [threw |-> FALSE, kind |-> "array", items |-> inner]
        ELSE IF n >= 2 /\ text[1] = "{" /\ text[n] = "}" /\ atomsOnly
            THEN [threw |-> FALSE, kind |-> "object", items |-> inner]
        ELSE IF n = 1 /\ text[1] \in Atoms
            THEN [threw |-> FALSE, kind |-> "scalar", items |-> text]
        ELSE [threw |-> TRUE, kind |-> "none", items |-> <<>>]

\* JSON.stringify of a parsed value
JsonStringify(v) ==
    IF v.kind = "array" THEN <<"[">> \o v.items \o <<"]">>
    ELSE IF v.kind = "object" THEN <<"{">> \o v.items \o <<"}">>
    ELSE v.items

\* One call of a model chain: the transport fails, or it returns raw text
ChainOutcome(transportFails, raw) == [transportFails |-> transportFails, raw |-> raw]
TransportFailure == ChainOutcome(TRUE, <<>>)

\* AIService.runChain: invoke, extract, parse; any failure is rethrown
runChain(outcome) ==
    IF outcome.transportFails
    THEN [threw |-> TRUE, kind |-> "none", items |-> <<>>]
    ELSE JsonParse(extractJson(outcome.raw))

---------------------------------------------------------------------------
(* The generation pipeline: MultiAgentUIGenerator *)

maxRetries == 3
StepIndexes == 1..5

\* What the language model may answer to the analyzer prompt
AnalyzerOutputs ==
    { <<"{", "button", "}">>,
      <<"Here", "{", "button", "widget", "}">>,
      <<"{", "7", "}">>,
      <<"[", "button", "]">>,
      <<"Sorry">> }

\* What the language model may answer to the code-generator prompt
SynthOutputs ==
    { <<"Sorry">>,
      <<"[", "Sorry", "]">>,
      <<"fence", "[", "c1", "]", "fence">>,
      <<"Here", "[", "c1", "c2", "]">>,
      <<"{", "c1", "}">> }

AnalyzerOutcomes == {TransportFailure} \cup {ChainOutcome(FALSE, r) : r \in AnalyzerOutputs}
SynthOutcomes == {TransportFailure} \cup {ChainOutcome(FALSE, r) : r \in SynthOutputs}

\* ComponentAnalyzer.cachedComponents: the names whose cache entry is true
cachedComponents == {"button"}

NullAnalysis == [isNull |-> TRUE, requiredComponents |-> <<>>, reasoning |-> "none"]
ErrorAnalysis == [isNull |-> FALSE, requiredComponents |-> <<>>, reasoning |-> "error"]

\* An operation's settlement: it resolved with a value or rejected
Resolved(value) == [threw |-> FALSE, value |-> value]
Rejected(error) == [threw |-> TRUE, value |-> <<error>>]

\* ComponentAnalyzer.validateAnalysis: a non-object throws; an array has none of
\* the fields, so each defaults
validateAnalysis(parsed) ==
    IF parsed.kind = "scalar" THEN [threw |-> TRUE, analysis |-> NullAnalysis]
    ELSE [threw |-> FALSE,
          analysis |-> [isNull |-> FALSE,
                        requiredComponents |->
                            IF parsed.kind = "object" THEN parsed.items ELSE <<>>,
                        reasoning |-> "provided"]]

\* ComponentAnalyzer.analyzeComponents: every failure of the analyzer chain, of
\* reading analysis.requiredComponents.length (only an object has the list) or of
\* the validation is caught and answered with an empty analysis
analyzeComponents(outcome) ==
    LET parsed == runChain(outcome)
        checked == validateAnalysis(parsed)
    IN  IF parsed.threw \/ parsed.kind # "object" \/ checked.threw
        THEN ErrorAnalysis ELSE checked.analysis

\* ComponentAnalyzer.isComponentAvailable (toLowerCase throws on a non-string)
isComponentAvailable(componentName) == componentName \in cachedComponents

\* Operation of step 2
CheckAvailability(ctx) ==
    IF ctx.analyzedComponents.isNull THEN Rejected("No analyzed components available")
    ELSE LET allComponents == Dedupe(ctx.analyzedComponents.requiredComponents)
         IN  IF \E k \in 1..Len(allComponents) : allComponents[k] \in NonStringAtoms
             THEN Rejected("comp.toLowerCase is not a function")
             ELSE Resolved([available |->
                                FilterSeq(allComponents,
                                          {c \in StringAtoms : isComponentAvailable(c)}),
                            unavailable |->
                                FilterSeq(allComponents,
                                          {c \in StringAtoms : ~isComponentAvailable(c)})])

\* ComponentFetcher.fetchComponents: one result per name, none of them thrown
fetchComponents(components) == Resolved(components)

\* MultiAgentUIGenerator.generateComponentCode
generateComponentCode(ctx, outcome) ==
    IF ctx.analyzedComponents.isNull
    THEN Rejected("Cannot generate code without component analysis.")
    ELSE LET parsed == runChain(outcome)
         IN  IF parsed.threw THEN Rejected("Failed to generate component code")
             ELSE Resolved(JsonStringify(parsed))

\* A component of the list: id, type, and the text it shows
Component(id, type, content) ==
    [id |-> id, type |-> type, content |-> content, children |-> <<>>]
Generated(id) == Component(id, "generated", <<>>)
ToComponents(items) == [k \in 1..Len(items) |-> Generated(items[k])]

\* MultiAgentUIGenerator.assembleComponents: the parsed list, or one fallback
\* card carrying the text that did not parse
assembleComponents(ctx) ==
    LET parsed == JsonParse(ctx.generatedCode)
    IN  IF ~parsed.threw
        THEN Resolved([shape |-> parsed.kind, components |-> ToComponents(parsed.items)])
        ELSE Resolved([shape |-> "array",
                       components |-> <<Component("fallback", "card", ctx.generatedCode)>>])

PendingStep == [status |-> "pending", retryCount |-> 0, result |-> <<>>, error |-> <<>>]

NewContext(userPrompt) ==
    [userPrompt |-> userPrompt,
     analyzedComponents |-> NullAnalysis,
     availableComponents |-> <<>>,
     generatedCode |-> <<>>,
     steps |-> [i \in StepIndexes |-> PendingStep]]

\* executeStep, entry: the step is running
StepRunning(ctx, i, retryCount) ==
    [ctx EXCEPT !.steps[i].status = "running", !.steps[i].retryCount = retryCount]

StepCompleted(ctx, i, result) ==
    [ctx EXCEPT !.steps[i].status = "completed", !.steps[i].result = result]

\* A catch that records the error and leaves the step as it was
StepFailedLeftRunning(ctx, i, error) == [ctx EXCEPT !.steps[i].error = error]

\* executeStep, catch after the last retry: the step is failed
StepFailed(ctx, i, error) ==
    [ctx EXCEPT !.steps[i].status = "failed", !.steps[i].error = error]

\* A retry test that lets one more attempt through
RetryAllowedOnceMore(retryCount) == retryCount < maxRetries

\* executeStep, catch: whether the operation is tried again
RetryAllowed(retryCount) == retryCount < maxRetries - 1

NoReturn == [returned |-> FALSE, threw |-> FALSE, shape |-> "array",
             components |-> <<>>, success |-> FALSE]

\* A catch that reports the failed run as a success
FailureReturnAsSuccess(error) ==
    [returned |-> TRUE, threw |-> FALSE, shape |-> "array",
     components |-> <<>>, success |-> TRUE]

\* A catch that returns a diagnostic card with the failed run
FailureReturnWithDiagnostic(error) ==
    [returned |-> TRUE, threw |-> FALSE, shape |-> "array",
     components |-> <<[id |-> "diagnostic", type |-> "card", content |-> error,
                      children |-> <<>>]>>,
     success |-> FALSE]

\* A step-3 branch that forgets to mark the skipped step
SkipFetchUnmarked(ctx) == ctx

\* generateUI, the normal return
SuccessReturn(assembled) ==
    [returned |-> TRUE, threw |-> FALSE, shape |-> assembled.shape,
     components |-> assembled.components, success |-> TRUE]

\* generateUI, catch: the error is logged and a failed result returned
FailureReturn(error) ==
    [returned |-> TRUE, threw |-> FALSE, shape |-> "array",
     components |-> <<>>, success |-> FALSE]

\* A step-3 test that always goes to the fetcher
NeedsFetchAlways(unavailable) == TRUE

\* generateUI, step 3: the fetcher is called when step 2 found a name missing
NeedsFetch(unavailable) == Len(unavailable) > 0

\* generateUI, step 3 when nothing is missing: marked completed without a fetch
SkipFetch(ctx) == StepCompleted(ctx, 3, <<"No components to fetch">>)

\* executeStep called for step i: the step is running and its operation invoked
EnterStep(ctx, i) ==
    /\ pctx' = StepRunning(ctx, i, 0)
    /\ attempts' = [attempts EXCEPT ![i] = @ + 1]
    /\ UNCHANGED failures

\* executeStep's catch for step i: retry, or fail the step and rethrow, which
\* generateUI's catch turns into the failed result
StepCatch(i, error) ==
    /\ failures' = [failures EXCEPT ![i] = @ + 1]
    /\ IF RetryAllowed(pctx.steps[i].retryCount)
       THEN /\ pctx' = StepRunning(pctx, i, pctx.steps[i].retryCount + 1)
            /\ attempts' = [attempts EXCEPT ![i] = @ + 1]
            /\ UNCHANGED <<ppc, pret>>
       ELSE /\ pctx' = StepFailed(pctx, i, error)
            /\ ppc' = "done"
            /\ pret' = FailureReturn(error)
            /\ UNCHANGED attempts

ZeroAttempts == [i \in StepIndexes |-> 0]
Prompts == {"dashboard"}

\* generateUI(userPrompt), up to the first await: a fresh context, step 1 entered
GenerateUIStart ==
    /\ ppc \in {"idle", "done"}
    /\ \E userPrompt \in Prompts :
         /\ pctx' = StepRunning(NewContext(userPrompt), 1, 0)
         /\ attempts' = [ZeroAttempts EXCEPT ![1] = 1]
    /\ failures' = ZeroAttempts
    /\ ppc' = "step1"
    /\ pret' = NoReturn
    /\ analyzerCalls' = <<>>
    /\ synthCalls' = <<>>
    /\ UNCHANGED <<rvars, hvars, kvars, svars, qvars, fvars, mvars>>

\* Step 1 settles: the analyzer answered (or failed) and analyzeComponents returned
Step1Analyze ==
    /\ ppc = "step1"
    /\ \E outcome \in AnalyzerOutcomes :
         LET analysis == analyzeComponents(outcome)
             r == Resolved(analysis)
             done == StepCompleted([pctx EXCEPT !.analyzedComponents = analysis],
                                   1, analysis.requiredComponents)
         IN  /\ analyzerCalls' =
                    Append(analyzerCalls,
                           IF runChain(outcome).threw THEN "failed" ELSE "answered")
             /\ IF r.threw
                THEN StepCatch(1, r.value)
                ELSE /\ EnterStep(done, 2)
                     /\ ppc' = "step2"
                     /\ pret' = pret
    /\ UNCHANGED <<synthCalls, rvars, hvars, kvars, svars, qvars, fvars, mvars>>

\* Step 2 settles: the availability partition, or a throw on a malformed analysis
Step2CheckAvailability ==
    /\ ppc = "step2"
    /\ LET r == CheckAvailability(pctx)
       IN  IF r.threw
           THEN StepCatch(2, r.value)
           ELSE LET done == StepCompleted(
                                [pctx EXCEPT !.availableComponents = r.value.available],
                                2, r.value)
                IN  /\ pret' = pret
                    /\ IF NeedsFetch(r.value.unavailable)
                       THEN /\ EnterStep(done, 3)
                            /\ ppc' = "step3"
                       ELSE /\ EnterStep(SkipFetch(done), 4)
                            /\ ppc' = "step4"
    /\ UNCHANGED <<analyzerCalls, synthCalls, rvars, hvars, kvars, svars, qvars, fvars, mvars>>

\* Step 3 settles: the fetcher returned its per-name results
Step3Fetch ==
    /\ ppc = "step3"
    /\ LET r == fetchComponents(pctx.steps[2].result.unavailable)
       IN  IF r.threw
           THEN StepCatch(3, r.value)
           ELSE /\ EnterStep(StepCompleted(pctx, 3, r.value), 4)
                /\ ppc' = "step4"
                /\ pret' = pret
    /\ UNCHANGED <<analyzerCalls, synthCalls, rvars, hvars, kvars, svars, qvars, fvars, mvars>>

\* Step 4 settles: the code generator answered (or failed)
Step4Generate ==
    /\ ppc = "step4"
    /\ \E outcome \in SynthOutcomes :
         LET r == generateComponentCode(pctx, outcome)
         IN  /\ synthCalls' = Append(synthCalls, outcome)
             /\ IF r.threw
                THEN StepCatch(4, r.value)
                ELSE /\ EnterStep(StepCompleted([pctx EXCEPT !.generatedCode = r.value],
                                                4, r.value), 5)
                     /\ ppc' = "step5"
                     /\ pret' = pret
    /\ UNCHANGED <<analyzerCalls, rvars, hvars, kvars, svars, qvars, fvars, mvars>>

\* Step 5 settles and generateUI returns
Step5Assemble ==
    /\ ppc = "step5"
    /\ LET r == assembleComponents(pctx)
       IN  IF r.threw
           THEN StepCatch(5, r.value)
           ELSE /\ pctx' = StepCompleted(pctx, 5, r.value.components)
                /\ ppc' = "done"
                /\ pret' = SuccessReturn(r.value)
                /\ UNCHANGED <<attempts, failures>>
    /\ UNCHANGED <<analyzerCalls, synthCalls, rvars, hvars, kvars, svars, qvars, fvars, mvars>>

PipelineNext ==
    \/ GenerateUIStart
    \/ Step1Analyze
    \/ Step2CheckAvailability
    \/ Step3Fetch
    \/ Step4Generate
    \/ Step5Assemble

---------------------------------------------------------------------------
(* The event-handler resolution chain: resolveEventHandler *)

\* Names with an own entry in the functionRegistry literal
RegistryLiteral == {"noop", "logClick"}
\* Names every object inherits from Object.prototype: functions, and __proto__,
\* which is Object.prototype itself
InheritedFunctions == {"toString", "constructor"}
InheritedObjects == {"__proto__"}

\* functionRegistry[name]: own entry, else what the prototype chain gives
RegistryLookup(reg, name) ==
    IF name \in reg THEN [truthy |-> TRUE, callable |-> TRUE, source |-> "registry"]
    ELSE IF name \in InheritedFunctions
         THEN [truthy |-> TRUE, callable |-> TRUE, source |-> "prototype"]
    ELSE IF name \in InheritedObjects
         THEN [truthy |-> TRUE, callable |-> FALSE, source |-> "prototype"]
    ELSE [truthy |-> FALSE, callable |-> FALSE, source |-> "none"]

\* A declared prop value: a function, a string, or anything else
FunctionValue(name) == [typeof |-> "function", name |-> name]
StringValue(name) == [typeof |-> "string", name |-> name]
UndefinedValue == [typeof |-> "undefined", name |-> ""]

\* What resolveEventHandler returns
Handler(kind, callable, name, componentId, elementId, eventName) ==
    [kind |-> kind, callable |-> callable, name |-> name,
     componentId |-> componentId, elementId |-> elementId, eventName |-> eventName]

\* createRecursiveHandler: an async function closing over its three arguments
createRecursiveHandler(componentId, elementId, eventName) ==
    Handler("fallback", TRUE, "", componentId, elementId, eventName)

resolveEventHandler(reg, propName, propValue, componentId, elementId) ==
    IF propValue.typeof = "string" /\ RegistryLookup(reg, propValue.name).truthy
    THEN LET found == RegistryLookup(reg, propValue.name)
         IN  Handler(found.source, found.callable, propValue.name, "", "", "")
    ELSE IF propValue.typeof = "function"
         THEN Handler("declared", TRUE, propValue.name, "", "", "")
    ELSE createRecursiveHandler(componentId, elementId, propName)

---------------------------------------------------------------------------
(* The store's component list, context capture and the recursive cache *)

WithChildren(c, children) == [c EXCEPT !.children = children]

InitialComponents ==
    << Component("search", "search-bar", <<>>),
       WithChildren(Component("panel", "card", <<>>),
                    <<Component("btn", "button", <<>>)>>) >>

\* tagName.toLowerCase() of the element with a given id
ElementTag(elementId) ==
    IF elementId = "search" THEN "input"
    ELSE IF elementId = "btn" THEN "button"
    ELSE "div"

\* event.target.value when it is a string, else undefined
NoInput == [defined |-> FALSE, text |-> ""]
Input(text) == [defined |-> TRUE, text |-> text]

RECURSIVE FindIndex(_, _, _)
\* findIndex(c => c.id === id), 0 for -1
FindIndex(components, id, i) ==
    IF i > Len(components) THEN 0
    ELSE IF components[i].id = id THEN i ELSE FindIndex(components, id, i + 1)

RECURSIVE IdsOfOthers(_, _)
\* ids of components.filter(comp => comp.id !== targetId)
IdsOfOthers(components, targetId) ==
    IF components = <<>> THEN <<>>
    ELSE (IF Head(components).id # targetId THEN <<Head(components).id>> ELSE <<>>)
         \o IdsOfOthers(Tail(components), targetId)

Take(s, n) == SubSeq(s, 1, IF Len(s) < n THEN Len(s) ELSE n)

\* .slice(0, 3) in findSiblingComponents
MaxSiblings == 3

\* The first components of the list, the target among them
FirstComponentIds(components, targetId) ==
    Take([k \in 1..Len(components) |-> components[k].id], MaxSiblings)

\* ContextManager.findSiblingComponents (as ids)
findSiblingComponents(components, targetId) ==
    Take(IdsOfOthers(components, targetId), MaxSiblings)

\* ContextManager.findParentComponent (as an id, absent when none)
findParentComponent(components, targetId) ==
    LET hits == {i \in 1..Len(components) :
                    \E k \in 1..Len(components[i].children) :
                        components[i].children[k].id = targetId}
    IN  IF hits = {} THEN [defined |-> FALSE, id |-> ""]
        ELSE [defined |-> TRUE,
              id |-> components[CHOOSE i \in hits : \A j \in hits : i <= j].id]

\* ContextManager.buildComponentHierarchy (as ids)
buildComponentHierarchy(components, targetId) ==
    Take([k \in 1..Len(components) |-> components[k].id], 5)

\* ContextManager.calculateElementPosition (0-based index, -1 raised to 0)
calculateElementPosition(components, targetId) ==
    LET index == FindIndex(components, targetId, 1) - 1
    IN  [index |-> IF index < 0 THEN 0 ELSE index, depth |-> 1]

\* ContextManager.captureFull
captureFull(elementId, components, userInput) ==
    [level |-> "full",
     triggerId |-> elementId,
     triggerType |-> "recursive-generation",
     triggerElement |-> [id |-> elementId, type |-> ElementTag(elementId),
                         position |-> calculateElementPosition(components, elementId)],
     userInput |-> userInput,
     componentHierarchy |-> buildComponentHierarchy(components, elementId),
     siblingComponents |-> findSiblingComponents(components, elementId),
     parentComponent |-> findParentComponent(components, elementId),
     componentCount |-> Len(components)]

\* ContextManager.captureFull at a given time in a given viewport
captureFullAt(elementId, components, userInput, now, viewport) ==
    [field \in DOMAIN captureFull(elementId, components, userInput)
               \cup {"timestamp", "environmentInfo"} |->
        CASE field = "timestamp" -> now
          [] field = "environmentInfo" -> [viewport |-> viewport, timestamp |-> now]
          [] OTHER -> captureFull(elementId, components, userInput)[field]]

\* ContextManager.captureMinimal
captureMinimal(triggerId, elementType, errorMessage) ==
    [level |-> "minimal",
     triggerId |-> triggerId,
     triggerType |-> "error",
     elementType |-> elementType,
     errorMessage |-> errorMessage]

\* ContextManager.captureStandard
captureStandard(elementId, userInput) ==
    [level |-> "standard",
     triggerId |-> elementId,
     triggerType |-> "user-interaction",
     triggerElement |-> [id |-> elementId, type |-> ElementTag(elementId)],
     userInput |-> userInput]

\* ContextManager.captureRich
captureRich(elementId, components, userInput) ==
    [level |-> "rich",
     triggerId |-> elementId,
     triggerType |-> "user-interaction",
     triggerElement |-> [id |-> elementId, type |-> ElementTag(elementId)],
     userInput |-> userInput,
     siblingComponents |-> findSiblingComponents(components, elementId),
     parentComponent |-> findParentComponent(components, elementId),
     componentCount |-> Len(components)]

\* A selection that spares the component list when there is no user input
captureContextForTypeByInput(generationType, elementId, components, options) ==
    CASE generationType = "error-fix" ->
             captureMinimal(elementId, ElementTag(elementId), options.errorMessage)
      [] generationType = "complex-interaction" /\ options.userInput.defined ->
             captureRich(elementId, components, options.userInput)
      [] generationType = "recursive" /\ options.userInput.defined ->
             captureFull(elementId, components, options.userInput)
      [] OTHER -> captureStandard(elementId, options.userInput)

\* ContextManager.captureContextForType
captureContextForType(generationType, elementId, components, options) ==
    CASE generationType = "error-fix" ->
             captureMinimal(elementId, ElementTag(elementId), options.errorMessage)
      [] generationType = "simple-interaction" ->
             captureStandard(elementId, options.userInput)
      [] generationType = "complex-interaction" ->
             captureRich(elementId, components, options.userInput)
      [] generationType = "recursive" ->
             captureFull(elementId, components, options.userInput)
      [] OTHER -> captureStandard(elementId, options.userInput)

\* captureContext: throws when the document has no element with that id
captureContext(elementId, document, components, userInput) ==
    IF elementId \notin document
    THEN [threw |-> TRUE, context |-> captureFull("", <<>>, NoInput)]
    ELSE [threw |-> FALSE, context |-> captureFull(elementId, components, userInput)]

\* UTF-16 code units of the strings that reach the cache key
Chars(s) ==
    CASE
         s = "search" -> <<115, 101, 97, 114, 99, 104>>
      [] s = "panel" -> <<112, 97, 110, 101, 108>>
      [] s = "btn" -> <<98, 116, 110>>
      [] s = "g1" -> <<103, 49>>
      [] s = "g2" -> <<103, 50>>
      [] s = "input" -> <<105, 110, 112, 117, 116>>
      [] s = "button" -> <<98, 117, 116, 116, 111, 110>>
      [] s = "div" -> <<100, 105, 118>>
      [] s = "hi" -> <<104, 105>>
      [] s = "Aa" -> <<65, 97>>
      [] s = "BB" -> <<66, 66>>
      [] s = "" -> <<>>

Quote == <<34>>
Comma == <<44>>

RECURSIVE JoinIds(_)
\* ids.join(',')
JoinIds(ids) ==
    IF ids = <<>> THEN <<>>
    ELSE IF Len(ids) = 1 THEN Chars(ids[1])
    ELSE Chars(ids[1]) \o Comma \o JoinIds(Tail(ids))

\* "name":"value"
Member(nameCodes, valueCodes) == Quote \o nameCodes \o Quote \o <<58>> \o Quote \o valueCodes \o Quote

\* A keyParts object that takes its siblings from the captured hierarchy
KeyPartsOfHierarchy(context) ==
    [triggerId |-> context.triggerElement.id,
     triggerType |-> context.triggerElement.type,
     input |-> IF context.userInput.defined THEN context.userInput.text ELSE "",
     parent |-> IF context.parentComponent.defined THEN context.parentComponent.id ELSE "",
     siblings |-> JoinIds(Take(context.componentHierarchy, MaxSiblings))]

\* createCacheKey's keyParts object
KeyParts(context) ==
    [triggerId |-> context.triggerElement.id,
     triggerType |-> context.triggerElement.type,
     input |-> IF context.userInput.defined THEN context.userInput.text ELSE "",
     parent |-> IF context.parentComponent.defined THEN context.parentComponent.id ELSE "",
     siblings |-> JoinIds(context.siblingComponents)]

\* JSON.stringify(keyParts)
KeyString(keyParts) ==
    <<123>>
    \o Member(<<116, 114, 105, 103, 103, 101, 114, 73, 100>>, Chars(keyParts.triggerId))
    \o Comma
    \o Member(<<116, 114, 105, 103, 103, 101, 114, 84, 121, 112, 101>>,
              Chars(keyParts.triggerType)) \o Comma
    \o Member(<<105, 110, 112, 117, 116>>, Chars(keyParts.input)) \o Comma
    \o Member(<<112, 97, 114, 101, 110, 116>>, Chars(keyParts.parent)) \o Comma
    \o Member(<<115, 105, 98, 108, 105, 110, 103, 115>>, keyParts.siblings)
    \o <<125>>

\* A 32-bit integer is held as its two 16-bit halves [hi, lo] (two's complement)
Int32Zero == [hi |-> 0, lo |-> 0]

\* (hash << 5) - hash + char, then hash |= 0: 31 * hash + char modulo 2^32
HashStep(hash, char) ==
    CHOOSE r \in {[hi |-> (h.hi * 31 + ((h.lo * 31 + char) \div 65536)) % 65536,
                    lo |-> (h.lo * 31 + char) % 65536] : h \in {hash}} : TRUE

RECURSIVE HashFrom(_, _, _, _)
\* the loop over keyString's code units a..b, entered with `hash`: the units are
\* folded left to right, the first half's result entering the second half
HashFrom(codes, a, b, hash) ==
    IF a > b THEN hash
    ELSE IF a = b THEN HashStep(hash, codes[a])
    ELSE CHOOSE r \in UNION {{HashFrom(codes, mid + 1, b, h) :
                                  h \in {HashFrom(codes, a, mid, hash)}} :
                               mid \in {(a + b) \div 2}} : TRUE

\* Math.abs of a 32-bit integer, as the halves of the (non-negative) result;
\* -2^31 gives 2^31
Abs32(x) ==
    IF x.hi < 32768 THEN x
    ELSE [hi |-> 65536 - x.hi - (IF x.lo > 0 THEN 1 ELSE 0), lo |-> (65536 - x.lo) % 65536]

\* The hash loop and Math.abs over JSON.stringify(keyParts)
HashKey(keyParts) ==
    CHOOSE key \in {Abs32(HashFrom(keyString, 1, Len(keyString), Int32Zero)) :
                       keyString \in {KeyString(keyParts)}} : TRUE

\* The ids a top-level component may carry
SiblingIds == {"search", "panel", "g1", "g2"}
RECURSIVE IdLists(_)
\* id lists of at most n entries
IdLists(n) ==
    IF n = 0 THEN {<<>>}
    ELSE IdLists(n - 1) \cup {Append(s, i) : s \in IdLists(n - 1), i \in SiblingIds}
\* Every keyParts object a captured context can give
KeyPartsSpace ==
    {[triggerId |-> t, triggerType |-> ElementTag(t), input |-> i, parent |-> p,
      siblings |-> JoinIds(s)] :
        t \in {"search", "btn"}, i \in {"", "hi", "Aa", "BB"}, p \in {"", "panel"},
        s \in IdLists(MaxSiblings)}
\* createCacheKey's number for each of them
CacheKeys == [keyParts \in KeyPartsSpace |-> HashKey(keyParts)]

\* createCacheKey: the prefix is constant; the key is told by the number after it
createCacheKey(context) == CacheKeys[KeyParts(context)]

---------------------------------------------------------------------------
(* The generative fallback handler: createRecursiveHandler's async function *)

\* The handler invocations, numbered in the order they start
MaxInvocations == 2
\* The clock readings a capture may see
MaxTime == 2
\* How many cacheRecursiveResult calls are made on the cache alone
MaxPuts == 3
\* How many queuePatch calls are made
MaxPatches == 3
\* How many top-level components the lists a context is captured over have
MaxComponents == 7
\* How many store operations (placeholder generations, insertions) are started
MaxStoreOps == 3
Handlers == 1..MaxInvocations
\* What an invocation starts from: the (componentId, elementId) the handler was
\* bound to and the value, if any, of the event's target
Triggers ==
    { [binding |-> <<"search", "search">>, userInput |-> Input("hi")],
      [binding |-> <<"search", "search">>, userInput |-> NoInput],
      [binding |-> <<"panel", "btn">>, userInput |-> NoInput] }

\* What the language model may answer to the recursive-generator prompt
RecursiveOutputs ==
    { <<"{", "g1", "meta", "}">>,
      <<"fence", "{", "g2", "meta", "}", "fence">>,
      <<"{", "meta", "}">>,
      <<"{", "g1", "}">>,
      <<"Sorry">> }
RecursiveOutcomes ==
    {TransportFailure} \cup {ChainOutcome(FALSE, r) : r \in RecursiveOutputs}

NoFragment == [fromCache |-> FALSE, hasUi |-> FALSE, ui |-> Generated(""),
               hasMetadata |-> FALSE]

\* generateRecursiveUI: the chain's result, its failure logged and rethrown
generateRecursiveUI(outcome) == runChain(outcome)

\* const { ui, metadata } = result: fields of an object, undefined otherwise
Destructure(parsed) ==
    LET uis == IF parsed.kind = "object"
               THEN FilterSeq(parsed.items, Atoms \ {"meta"}) ELSE <<>>
    IN  [fromCache |-> FALSE,
         hasUi |-> uis # <<>>,
         ui |-> Generated(IF uis # <<>> THEN uis[1] ELSE ""),
         hasMetadata |-> parsed.kind = "object"
                         /\ \E k \in 1..Len(parsed.items) : parsed.items[k] = "meta"]

\* An insertion that drops the component when the target is not in the list
insertComponentAfterOrDrop(components, targetComponentId, newComponent) ==
    LET targetIndex == FindIndex(components, targetComponentId, 1)
    IN  IF targetIndex # 0
        THEN SubSeq(components, 1, targetIndex) \o <<newComponent>>
             \o SubSeq(components, targetIndex + 1, Len(components))
        ELSE components

\* useAppStore.insertComponentAfter
insertComponentAfter(components, targetComponentId, newComponent) ==
    LET targetIndex == FindIndex(components, targetComponentId, 1)
    IN  IF targetIndex # 0
        THEN SubSeq(components, 1, targetIndex) \o <<newComponent>>
             \o SubSeq(components, targetIndex + 1, Len(components))
        ELSE Append(components, newComponent)

\* insertRecursiveUI: nothing without a component or a target
insertRecursiveUI(components, fragment, targetElementId) ==
    IF ~fragment.hasUi \/ targetElementId = "" THEN components
    ELSE insertComponentAfter(components, targetElementId, fragment.ui)

\* An order of work that writes the cache on a miss, before any generation
AfterStepWriteOnMiss(step, outcome) ==
    CASE step = "capture" -> "probe"
      [] step = "probe" /\ outcome = "hit" -> "place"
      [] step = "probe" /\ outcome = "miss" -> "cachewrite"
      [] step = "cachewrite" -> "generate"
      [] step = "generate" -> "place"
      [] OTHER -> "done"

\* An order of work that calls the generator even on a cache hit
AfterStepAlwaysGenerate(step, outcome) ==
    CASE step = "capture" -> "probe"
      [] step = "probe" -> "generate"
      [] step = "generate" -> "place"
      [] step = "place" /\ outcome = "hit" -> "done"
      [] step = "place" /\ outcome = "miss" -> "cachewrite"
      [] OTHER -> "done"

\* An order of work that writes the cache before placing the fragment
AfterStepCacheFirst(step, outcome) ==
    CASE step = "capture" -> "probe"
      [] step = "probe" /\ outcome = "hit" -> "place"
      [] step = "probe" /\ outcome = "miss" -> "generate"
      [] step = "generate" -> "cachewrite"
      [] step = "cachewrite" -> "place"
      [] OTHER -> "done"

\* The handler's order of work: where it goes after each step
AfterStep(step, outcome) ==
    CASE step = "capture" -> "probe"
      [] step = "probe" /\ outcome = "hit" -> "place"
      [] step = "probe" /\ outcome = "miss" -> "generate"
      [] step = "generate" -> "place"
      [] step = "place" /\ outcome = "hit" -> "done"
      [] step = "place" /\ outcome = "miss" -> "cachewrite"
      [] OTHER -> "done"

Running == [ended |-> "running", stage |-> "", escaped |-> FALSE]
Completed == [ended |-> "completed", stage |-> "", escaped |-> FALSE]

\* A catch that rethrows
HandlerCatchRethrows(stage) == [ended |-> "failed", stage |-> stage, escaped |-> TRUE]
\* A catch that leaves a fragment behind
HandlerCatchComponentsPartial(components, componentId) ==
    Append(components, [id |-> "g1", type |-> "generated", content |-> <<>>,
                        children |-> <<>>])

\* The handler's catch: the error is logged, nothing is rethrown
HandlerCatch(stage) == [ended |-> "failed", stage |-> stage, escaped |-> FALSE]
\* ... and the component list is left as it is
HandlerCatchComponents(components, componentId) == components

NoBinding == <<"", "">>
NoError == <<0, "">>
\* The error messages of the patch requests
PatchErrors == {"e1", "e2"}
\* attemptFix returned null / fixCache holds nothing
NoFix == [kind |-> "null", component |-> Generated("")]
\* No attemptFix call settled yet
NoLastFix == [settled |-> FALSE, request |-> [componentId |-> "", error |-> ""],
              component |-> Generated(""), fixedCode |-> NoFix]
\* No store operation finished yet
NoOperation == [op |-> "none", id |-> "", success |-> FALSE, components |-> <<>>,
                snapshot |-> <<>>, returned |-> "undefined"]
\* No captureContextForType call
NoCapture == [generationType |-> "", elementId |-> "", components |-> <<>>,
              options |-> [userInput |-> NoInput, errorMessage |-> NoInput]]
\* No getCachedRecursiveResult call made yet
NoGet == [called |-> FALSE, key |-> Int32Zero, found |-> FALSE, value |-> NoFragment,
          failed |-> FALSE, after |-> 0]
NoContext == captureFull("", <<>>, NoInput)

\* The invocation returns: its locals are gone
HandlerReturns(h) ==
    /\ hbind' = [hbind EXCEPT ![h] = NoBinding]
    /\ hctx' = [hctx EXCEPT ![h] = NoContext]
    /\ hres' = [hres EXCEPT ![h] = NoFragment]

\* The handler's try block threw in `stage`
HandlerThrows(h, stage) ==
    /\ hpc' = [hpc EXCEPT ![h] = "done"]
    /\ HandlerReturns(h)
    /\ hout' = [hout EXCEPT ![h] = HandlerCatch(stage)]
    /\ currentComponents' = HandlerCatchComponents(currentComponents, hbind[h][1])
    /\ hplaced' = [hplaced EXCEPT ![h] = @ \/ currentComponents' # currentComponents]

\* The handler is invoked: the event is stopped and the context captured
HandlerCapture(h) ==
    /\ hpc[h] = "idle"
    /\ \A g \in Handlers : g < h => hpc[g] # "idle"
    /\ \E trigger \in Triggers :
         LET r == captureContext(trigger.binding[2], dom, currentComponents,
                                 trigger.userInput)
         IN  IF r.threw
             THEN /\ hpc' = [hpc EXCEPT ![h] = "done"]
                  /\ hout' = [hout EXCEPT ![h] = HandlerCatch("capture")]
                  /\ currentComponents' =
                         HandlerCatchComponents(currentComponents, trigger.binding[1])
                  /\ hplaced' = [hplaced EXCEPT
                                    ![h] = currentComponents' # currentComponents]
                  /\ UNCHANGED <<hbind, hctx, hres, hlog>>
             ELSE /\ hpc' = [hpc EXCEPT ![h] = AfterStep("capture", "ok")]
                  /\ hbind' = [hbind EXCEPT ![h] = trigger.binding]
                  /\ hctx' = [hctx EXCEPT ![h] = r.context]
                  /\ hlog' = [hlog EXCEPT ![h] = <<"capture">>]
                  /\ UNCHANGED <<currentComponents, hres, hout, hplaced>>
    /\ UNCHANGED <<dom, cache, lastError, pvars, rvars, kvars, svars, qvars, fvars, mvars>>

\* UIStorageManager.getItem on the key-value store: the value, or null
getItem(store, key) ==
    IF key \in DOMAIN store THEN [found |-> TRUE, value |-> store[key]]
    ELSE [found |-> FALSE, value |-> NoFragment]

\* getCachedRecursiveResult: the entry, or null when there is none or when the
\* store read fails (the error is logged)
getCachedRecursiveResult(store, context, storeFails) ==
    IF storeFails THEN [found |-> FALSE, value |-> NoFragment]
    ELSE getItem(store, createCacheKey(context))

\* A continuation that shares the generation call another invocation has in
\* flight for the same key instead of issuing its own
ProceedDeduplicated(h, log, fragment, next) ==
    LET placing == next = "place"
        shared == /\ next = "generate"
                  /\ \E g \in Handlers \ {h} :
                         /\ hpc[g] = "generate"
                         /\ createCacheKey(hctx[g]) = createCacheKey(hctx[h])
        after == IF placing
                 THEN AfterStep("place", IF fragment.fromCache THEN "hit" ELSE "miss")
                 ELSE IF shared THEN "done" ELSE next
        components == IF placing
                      THEN insertRecursiveUI(currentComponents, fragment, hbind[h][1])
                      ELSE currentComponents
    IN  /\ currentComponents' = components
        /\ hplaced' = [hplaced EXCEPT ![h] = @ \/ components # currentComponents]
        /\ hlog' = [hlog EXCEPT ![h] = IF placing THEN Append(log, "place") ELSE log]
        /\ hpc' = [hpc EXCEPT ![h] = after]
        /\ IF after = "done"
           THEN /\ hout' = [hout EXCEPT ![h] = Completed]
                /\ HandlerReturns(h)
           ELSE /\ hres' = [hres EXCEPT ![h] = fragment]
                /\ UNCHANGED <<hout, hbind, hctx>>

\* What follows an awaited step that settled with `fragment` in hand and `next`
\* to do: a placement is done at once (insertRecursiveUI is synchronous, and
\* catches its own errors), and the invocation runs on to its next await or
\* to its return
Proceed(h, log, fragment, next) ==
    LET placing == next = "place"
        after == IF placing
                 THEN AfterStep("place", IF fragment.fromCache THEN "hit" ELSE "miss")
                 ELSE next
        components == IF placing
                      THEN insertRecursiveUI(currentComponents, fragment, hbind[h][1])
                      ELSE currentComponents
    IN  /\ currentComponents' = components
        /\ hplaced' = [hplaced EXCEPT ![h] = @ \/ components # currentComponents]
        /\ hlog' = [hlog EXCEPT ![h] = IF placing THEN Append(log, "place") ELSE log]
        /\ hpc' = [hpc EXCEPT ![h] = after]
        /\ IF after = "done"
           THEN /\ hout' = [hout EXCEPT ![h] = Completed]
                /\ HandlerReturns(h)
           ELSE /\ hres' = [hres EXCEPT ![h] = fragment]
                /\ UNCHANGED <<hout, hbind, hctx>>

\* getCachedRecursiveResult settles: on an entry its fragment is placed and the
\* handler returns; on null the prompt is built and the generation call issued
HandlerProbe(h) ==
    /\ hpc[h] = "probe"
    /\ \E storeFails \in BOOLEAN :
         \E cachedResult \in {getCachedRecursiveResult(cache, hctx[h], storeFails)} :
             /\ Proceed(h, Append(hlog[h], "probe"),
                        IF cachedResult.found
                        THEN [cachedResult.value EXCEPT !.fromCache = TRUE] ELSE hres[h],
                        AfterStep("probe", IF cachedResult.found THEN "hit" ELSE "miss"))
             /\ lastError' = IF storeFails THEN <<h, "getItem">> ELSE lastError
    /\ UNCHANGED <<dom, cache, pvars, rvars, kvars, svars, qvars, fvars, mvars>>

\* generateRecursiveUI settles: the result is destructured, its metadata read,
\* the fragment placed and the cache write issued
HandlerGenerate(h) ==
    /\ hpc[h] = "generate"
    /\ \E outcome \in RecursiveOutcomes :
         LET r == generateRecursiveUI(outcome)
             fragment == Destructure(r)
         IN  IF r.threw \/ ~fragment.hasMetadata
             THEN /\ HandlerThrows(h, "generate")
                  /\ UNCHANGED hlog
             ELSE Proceed(h, Append(hlog[h], "generate"), fragment,
                          AfterStep("generate", "ok"))
    /\ UNCHANGED <<dom, cache, lastError, pvars, rvars, kvars, svars, qvars, fvars, mvars>>

\* A store that keeps the entry a key already has
setItemKeepsFirst(store, key, value) ==
    [k \in DOMAIN store \cup {key} |-> IF k \in DOMAIN store THEN store[k] ELSE value]

\* UIStorageManager.setItem on the key-value store
setItem(store, key, value) ==
    [k \in DOMAIN store \cup {key} |-> IF k = key THEN value ELSE store[k]]

\* A cache write that lets the store's error through
cacheRecursiveResultRethrows(store, context, result, storeFails) ==
    [threw |-> storeFails, store |-> store]

\* cacheRecursiveResult: the entry is stored under the context's key; a store
\* error is caught and logged, nothing is thrown
cacheRecursiveResult(store, context, result, storeFails) ==
    [threw |-> FALSE,
     store |-> IF storeFails THEN store
               ELSE setItem(store, createCacheKey(context), result)]

\* cacheRecursiveResult settles and the handler returns
HandlerCacheWrite(h) ==
    /\ hpc[h] = "cachewrite"
    /\ \E storeFails \in BOOLEAN :
         \E written \in {cacheRecursiveResult(cache, hctx[h], hres[h], storeFails)} :
             /\ cache' = written.store
             /\ lastError' = IF storeFails THEN <<h, "setItem">> ELSE lastError
             /\ IF written.threw
                THEN /\ HandlerThrows(h, "cachewrite")
                     /\ UNCHANGED hlog
                ELSE Proceed(h, Append(hlog[h], "cachewrite"), hres[h],
                             AfterStep("cachewrite", "ok"))
    /\ UNCHANGED <<dom, pvars, rvars, kvars, svars, qvars, fvars, mvars>>

\* The elements the renderer may take out while handlers run
Removable == {"btn"}

\* The renderer removes an element from the document
ElementRemoved ==
    /\ \E e \in dom \cap Removable : dom' = dom \ {e}
    /\ UNCHANGED <<currentComponents, cache, hpc, hbind, hctx, hres, hlog, hout, hplaced,
                   lastError, pvars, rvars, kvars, svars, qvars, fvars, mvars>>

HandlerStep(h) ==
    \/ HandlerCapture(h)
    \/ HandlerProbe(h)
    \/ HandlerGenerate(h)
    \/ HandlerCacheWrite(h)

---------------------------------------------------------------------------
(* Resolution as an operation: the registry may grow, handlers are resolved *)

RegistrableNames == {"custom", "toString"}
DeclaredValues ==
    {UndefinedValue, FunctionValue("inline")}
    \cup {StringValue(n) : n \in {"noop", "custom", "toString", "__proto__", "onSave"}}
EventNames == {"onClick", "onChange"}

Unresolved ==
    [called |-> FALSE, registered |-> {}, propName |-> "", propValue |-> UndefinedValue,
     componentId |-> "", elementId |-> "",
     handler |-> Handler("none", FALSE, "", "", "", "")]

\* registerFunction(name, fn) with a function
RegisterFunction ==
    /\ \E name \in RegistrableNames : registry' = registry \cup {name}
    /\ UNCHANGED <<resolved, pvars, hvars, kvars, svars, qvars, fvars, mvars>>

ResolveEventHandler ==
    /\ \E propName \in EventNames, propValue \in DeclaredValues, trigger \in Triggers :
         resolved' = [called |-> TRUE, registered |-> registry,
                      propName |-> propName, propValue |-> propValue,
                      componentId |-> trigger.binding[1],
                      elementId |-> trigger.binding[2],
                      handler |-> resolveEventHandler(registry, propName, propValue,
                                                      trigger.binding[1],
                                                      trigger.binding[2])]
    /\ UNCHANGED <<registry, pvars, hvars, kvars, svars, qvars, fvars, mvars>>

---------------------------------------------------------------------------
(* Specifications *)

\* The state before any run, resolution or trigger, the store holding
\* `components`
InitProgram(components) ==
    /\ ppc = "idle"
    /\ pctx = NewContext("")
    /\ pret = NoReturn
    /\ attempts = ZeroAttempts
    /\ failures = ZeroAttempts
    /\ analyzerCalls = <<>>
    /\ synthCalls = <<>>
    /\ registry = RegistryLiteral
    /\ resolved = Unresolved
    /\ currentComponents = components
    /\ dom = {"search", "btn"}
    /\ cache = <<>>
    /\ hpc = [h \in Handlers |-> "idle"]
    /\ hbind = [h \in Handlers |-> NoBinding]
    /\ hctx = [h \in Handlers |-> NoContext]
    /\ hres = [h \in Handlers |-> NoFragment]
    /\ hlog = [h \in Handlers |-> <<>>]
    /\ hout = [h \in Handlers |-> Running]
    /\ hplaced = [h \in Handlers |-> FALSE]
    /\ lastError = NoError
    /\ puts = <<>>
    /\ got = NoGet
    /\ patchQueue = <<>>
    /\ isProcessing = FALSE
    /\ inFlight = <<>>
    /\ fixCache = [e \in PatchErrors |-> NoFix]
    /\ attempted = {}
    /\ lastFix = NoLastFix
    /\ queued = <<>>
    /\ taken = <<>>

\* The state after construction, no context captured by type
InitTiers(call) ==
    /\ targs = call
    /\ tctx = <<>>
    /\ gcalls = <<>>
    /\ mops = 0
    /\ mop = NoOperation
    /\ isGenerating = FALSE
    /\ storeError = ""

\* The state after construction, no key derived
InitFrom(components) ==
    /\ InitProgram(components)
    /\ InitTiers(NoCapture)
    /\ kctx = <<NoContext, NoContext>>
    /\ kkeys = <<>>

Init == InitFrom(InitialComponents)

\* The pipeline alone
PipelineSpec == Init /\ [][PipelineNext]_vars

ResolveNext == RegisterFunction \/ ResolveEventHandler
\* The resolution chain alone
ResolveSpec == Init /\ [][ResolveNext]_vars

HandlerNext == ElementRemoved \/ \E h \in Handlers : HandlerStep(h)
\* Concurrent fallback-handler invocations over the store and the cache
HandlerSpec == Init /\ [][HandlerNext]_vars

\* A list in which an earlier fragment is already placed, before the panel
WideComponents ==
    << Component("search", "search-bar", <<>>),
       Generated("g2"),
       WithChildren(Component("panel", "card", <<>>),
                    <<Component("btn", "button", <<>>)>>) >>

\* Fallback-handler invocations over the longer list
WideTreeSpec == InitFrom(WideComponents) /\ [][HandlerNext]_vars

\* The component lists a context is captured over
KeyComponents ==
    { InitialComponents,
      WideComponents,
      <<WideComponents[2], WideComponents[1], WideComponents[3]>>,
      Append(WideComponents, Generated("g1")) }
\* The contexts captureContext can hand to createCacheKey: they differ in the
\* trigger, the input, the list captured over, the time and the viewport
KeyContexts ==
    { captureFullAt(e, components, userInput, now, viewport) :
          e \in {"search", "btn"}, components \in KeyComponents,
          userInput \in {NoInput, Input(""), Input("hi"), Input("Aa"), Input("BB")},
          now \in 1..MaxTime, viewport \in {"wide", "narrow"} }

\* createCacheKey is called on both contexts
DeriveKeys ==
    /\ kkeys = <<>>
    /\ kkeys' = <<createCacheKey(kctx[1]), createCacheKey(kctx[2])>>
    /\ UNCHANGED <<kctx, pvars, rvars, hvars, svars, qvars, fvars, mvars>>

\* createCacheKey alone, over every pair of contexts
KeySpec ==
    /\ InitProgram(InitialComponents)
    /\ InitTiers(NoCapture)
    /\ kctx \in KeyContexts \X KeyContexts
    /\ kkeys = <<>>
    /\ [][DeriveKeys]_vars

\* The contexts the cache is called with: the first two derive the same key
StoreContexts ==
    { captureFullAt("btn", InitialComponents, NoInput, 1, "wide"),
      captureFullAt("btn", InitialComponents, Input(""), MaxTime, "narrow"),
      captureFullAt("search", InitialComponents, Input("hi"), 1, "wide") }
\* The generation results it is given
StoreResults ==
    { [NoFragment EXCEPT !.hasUi = TRUE, !.ui = Generated(id), !.hasMetadata = TRUE] :
          id \in {"g1", "g2"} }

\* cacheRecursiveResult is called and settles
StorePut ==
    /\ Len(puts) < MaxPuts
    /\ \E context \in StoreContexts, result \in StoreResults, storeFails \in BOOLEAN :
         \E written \in {cacheRecursiveResult(cache, context, result, storeFails)} :
             /\ cache' = written.store
             /\ puts' = Append(puts, [key |-> createCacheKey(context),
                                      result |-> result, failed |-> storeFails])
    /\ UNCHANGED <<got, currentComponents, dom, hpc, hbind, hctx, hres, hlog, hout,
                   hplaced, lastError, pvars, rvars, kvars, qvars, fvars, mvars>>

\* getCachedRecursiveResult is called and settles
StoreGet ==
    /\ \E context \in StoreContexts, storeFails \in BOOLEAN :
         \E cachedResult \in {getCachedRecursiveResult(cache, context, storeFails)} :
             got' = [called |-> TRUE, key |-> createCacheKey(context),
                     found |-> cachedResult.found, value |-> cachedResult.value,
                     failed |-> storeFails, after |-> Len(puts)]
    /\ UNCHANGED <<puts, pvars, rvars, hvars, kvars, qvars, fvars, mvars>>

StoreNext == StorePut \/ StoreGet
\* The cache alone, under any sequence of puts and gets
StoreSpec == Init /\ [][StoreNext]_vars

---------------------------------------------------------------------------
(* The patch queue: PatchService *)

\* The requests the error boundary and the error monitor queue
PatchRequests ==
    { [componentId |-> c, error |-> e] :
          c \in {"search", "btn", "unknown"}, e \in PatchErrors }

RECURSIVE findComponent(_, _)
\* PatchService.findComponent: depth first, a component before its children
findComponent(components, id) ==
    IF components = <<>> THEN [found |-> FALSE, component |-> Generated("")]
    ELSE IF Head(components).id = id THEN [found |-> TRUE, component |-> Head(components)]
    ELSE LET foundInChildren == findComponent(Head(components).children, id)
         IN  IF foundInChildren.found THEN foundInChildren
             ELSE findComponent(Tail(components), id)

\* useAppStore.updateComponent: the updates are spread over the top-level
\* component with that id
updateComponent(components, componentId, updates) ==
    [k \in 1..Len(components) |->
        IF components[k].id = componentId THEN updates ELSE components[k]]

\* A guard that looks at the queue alone
MayStartWhenQueued(processing, queue) == queue # <<>>

\* processQueue's guard: nothing in progress and a request waiting
MayStart(processing, queue) == ~processing /\ queue # <<>>

\* Taking the newest request
pop(queue) == [request |-> queue[Len(queue)], rest |-> SubSeq(queue, 1, Len(queue) - 1)]

\* patchQueue.shift()
shift(queue) == [request |-> Head(queue), rest |-> Tail(queue)]

\* A processQueue that does not go on to the next request after dropping one
\* whose component is not in the list
processQueueStopsAtMissing(queue, processing, components) ==
    IF ~MayStart(processing, queue)
    THEN [patchQueue |-> queue, isProcessing |-> processing, taken |-> <<>>,
          started |-> <<>>]
    ELSE LET next == shift(queue)
             componentToFix == findComponent(components, next.request.componentId)
         IN  [patchQueue |-> next.rest, isProcessing |-> componentToFix.found,
              taken |-> <<next.request>>,
              started |-> IF componentToFix.found
                          THEN <<[request |-> next.request,
                                  component |-> componentToFix.component]>>
                          ELSE <<>>]

RECURSIVE processQueue(_, _, _)
\* processQueue up to its await (or its return): requests whose component is
\* not in the list are taken and dropped, one after the other; the first one
\* whose component is found starts an attemptFix call
processQueue(queue, processing, components) ==
    IF ~MayStart(processing, queue)
    THEN [patchQueue |-> queue, isProcessing |-> processing, taken |-> <<>>,
          started |-> <<>>]
    ELSE LET next == shift(queue)
             componentToFix == findComponent(components, next.request.componentId)
         IN  IF ~componentToFix.found
             THEN LET rest == processQueue(next.rest, FALSE, components)
                  IN  [rest EXCEPT !.taken = <<next.request>> \o @]
             ELSE [patchQueue |-> next.rest, isProcessing |-> TRUE,
                   taken |-> <<next.request>>,
                   started |-> <<[request |-> next.request,
                                  component |-> componentToFix.component]>>]

\* What aiService.fix may lead to: a rejection, a result whose string is not a
\* component, or the component it was given, patched, with the same id
FixOutcomes == {"null", "unparseable", "patched"}

\* attemptFix before its await: a fix kept for the same error message is the
\* result, whatever component it was made for
attemptFixCached(cached, error) == cached[error]

\* attemptFix: the kept fix if there is one; otherwise the AI's fix, which is
\* kept under the error message, or null when the AI call fails
attemptFix(cachedFix, component, outcome) ==
    IF cachedFix.kind # "null" THEN [fixedCode |-> cachedFix, cacheIt |-> FALSE]
    ELSE CASE outcome = "null" -> [fixedCode |-> NoFix, cacheIt |-> FALSE]
           [] outcome = "unparseable" ->
                  [fixedCode |-> [kind |-> "unparseable", component |-> Generated("")],
                   cacheIt |-> TRUE]
           [] outcome = "patched" ->
                  [fixedCode |-> [kind |-> "component",
                                  component |->
                                      [component EXCEPT !.content = <<"patched">>]],
                   cacheIt |-> TRUE]

\* processQueue after attemptFix: a fixed string that parses is applied with
\* updateComponent, anything else leaves the list alone
applyFix(components, componentId, fixedCode) ==
    IF fixedCode.kind = "component"
    THEN updateComponent(components, componentId, fixedCode.component)
    ELSE components

\* The attemptFix calls processQueue started, each with the fix kept for its error
Started(r, cached) ==
    [k \in 1..Len(r.started) |->
        [request |-> r.started[k].request, component |-> r.started[k].component,
         cachedFix |-> attemptFixCached(cached, r.started[k].request.error)]]

\* queuePatch: the request is pushed and processQueue called
queuePatch(request) ==
    /\ Len(queued) < MaxPatches
    /\ \E r \in {processQueue(Append(patchQueue, request), isProcessing,
                               currentComponents)} :
         /\ patchQueue' = r.patchQueue
         /\ isProcessing' = r.isProcessing
         /\ inFlight' = inFlight \o Started(r, fixCache)
         /\ taken' = taken \o r.taken
         /\ attempted' = IF r.started # <<>> THEN attempted \cup {Len(taken')}
                         ELSE attempted
    /\ queued' = Append(queued, request)
    /\ UNCHANGED <<fixCache, lastFix, currentComponents, dom, cache, hpc, hbind, hctx,
                   hres, hlog, hout, hplaced, lastError, pvars, rvars, kvars, svars,
                   fvars, mvars>>

\* An attemptFix call settles: a patch is parsed and applied, isProcessing is
\* cleared and processQueue called for the next request
FixSettles(i) ==
    /\ i \in 1..Len(inFlight)
    /\ \E outcome \in FixOutcomes :
         LET fix == inFlight[i]
             fixed == attemptFix(fix.cachedFix, fix.component, outcome)
             cached == IF fixed.cacheIt
                       THEN [fixCache EXCEPT ![fix.request.error] = fixed.fixedCode]
                       ELSE fixCache
             components == applyFix(currentComponents, fix.request.componentId,
                                    fixed.fixedCode)
         IN  \E r \in {processQueue(patchQueue, FALSE, components)} :
                 /\ currentComponents' = components
                 /\ fixCache' = cached
                 /\ lastFix' = [settled |-> TRUE, request |-> fix.request,
                                component |-> fix.component,
                                fixedCode |-> fixed.fixedCode]
                 /\ patchQueue' = r.patchQueue
                 /\ isProcessing' = r.isProcessing
                 /\ inFlight' = SubSeq(inFlight, 1, i - 1)
                                    \o SubSeq(inFlight, i + 1, Len(inFlight))
                                    \o Started(r, cached)
                 /\ taken' = taken \o r.taken
                 /\ attempted' = IF r.started # <<>> THEN attempted \cup {Len(taken')}
                                 ELSE attempted
    /\ UNCHANGED <<queued, dom, cache, hpc, hbind, hctx, hres, hlog, hout,
                   hplaced, lastError, pvars, rvars, kvars, svars, fvars, mvars>>

PatchNext ==
    \/ \E request \in PatchRequests : queuePatch(request)
    \/ \E i \in 1..MaxPatches : FixSettles(i)
\* The patch queue under any interleaving of queuePatch calls and settling fixes
PatchSpec == Init /\ [][PatchNext]_vars

---------------------------------------------------------------------------
(* Context tiers: ContextManager.captureContextForType *)

\* A long component list; contexts are captured over its prefixes
LongComponents ==
    WideComponents
        \o <<Generated("g1"), Generated("g3"), Generated("g4"), Generated("g5"),
             Generated("g6"), Generated("g7")>>
TierComponents == {Take(LongComponents, n) : n \in 0..MaxComponents}

\* The generation types a caller passes, one of them outside the declared four
GenerationTypes ==
    {"error-fix", "simple-interaction", "complex-interaction", "recursive", "other"}

\* The calls of captureContextForType
TierCalls ==
    { [generationType |-> t, elementId |-> e, components |-> components,
       options |-> [userInput |-> userInput, errorMessage |-> errorMessage]] :
          t \in GenerationTypes, e \in {"search", "btn"},
          components \in TierComponents,
          userInput \in {NoInput, Input("hi")},
          errorMessage \in {NoInput, Input("e1")} }

\* captureContextForType is called
CaptureForType ==
    /\ tctx = <<>>
    /\ tctx' = <<captureContextForType(targs.generationType, targs.elementId,
                                       targs.components, targs.options)>>
    /\ UNCHANGED <<targs, pvars, rvars, hvars, kvars, svars, qvars, mvars>>

\* captureContextForType alone, over every call
TierSpec ==
    /\ InitProgram(InitialComponents)
    /\ kctx = <<NoContext, NoContext>>
    /\ kkeys = <<>>
    /\ \E call \in TierCalls : InitTiers(call)
    /\ [][CaptureForType]_vars

---------------------------------------------------------------------------
(* The store's list operations: generatePlaceholder, insertComponentAfter *)

\* A placeholder with a given id
Placeholder(id) == Component(id, "placeholder", <<>>)

\* The lists the store may hold at the start: the placeholder at the top
\* level, the placeholder as a child, no placeholder
StoreComponents ==
    { <<Component("search", "search-bar", <<>>), Placeholder("ph"),
        WithChildren(Component("panel", "card", <<>>),
                     <<Component("btn", "button", <<>>)>>)>>,
      <<Component("search", "search-bar", <<>>),
        WithChildren(Component("panel", "card", <<>>),
                     <<Component("btn", "button", <<>>), Placeholder("ph")>>)>>,
      InitialComponents }

\* What generateUI may resolve to for a placeholder's prompt
\* (threw: the call was rejected instead)
PlaceholderResults ==
    { [threw |-> TRUE, success |-> FALSE, components |-> <<>>],
      [threw |-> FALSE, success |-> FALSE, components |-> <<>>],
      [threw |-> FALSE, success |-> TRUE, components |-> <<>>],
      [threw |-> FALSE, success |-> TRUE, components |-> <<Generated("r1")>>],
      [threw |-> FALSE, success |-> TRUE,
       components |-> <<Generated("r1"), Generated("r2")>>] }

\* What getAIService().generateUI may give the store's generateUI and
\* enhanceCurrentUI: a rejection, or a response with its components
StoreResponses ==
    { [threw |-> TRUE, components |-> <<>>],
      [threw |-> FALSE, components |-> <<Generated("u1")>>] }

\* The part of the store the generation actions write
StoreState(components, generating, err) ==
    [currentComponents |-> components, isGenerating |-> generating, error |-> err]

RECURSIVE replacePlaceholder(_, _, _)
\* currentComponents.flatMap(comp => comp.id === placeholder.id ? newComponents : [comp])
replacePlaceholder(components, placeholderId, newComponents) ==
    IF components = <<>> THEN <<>>
    ELSE (IF Head(components).id = placeholderId THEN newComponents
          ELSE <<Head(components)>>)
         \o replacePlaceholder(Tail(components), placeholderId, newComponents)

\* What insertComponentAfter hands back to its caller: the action returns
\* nothing, on either branch
insertComponentAfterReturns(components, targetComponentId, newComponent) ==
    "undefined"

\* A placeholder generation whose catch also takes the placeholder out of the
\* list
generatePlaceholderSettledDropsPlaceholder(state, call, result) ==
    StoreState(SelectSeq(state.currentComponents, LAMBDA c : c.id # call.id),
               FALSE, "Placeholder generation failed")

\* generatePlaceholder after its await: on success the placeholder is replaced
\* in the list read at the start and the result stored; a failure or a
\* rejection is caught, recorded as the error, and the flag cleared
generatePlaceholderSettled(state, call, result) ==
    IF result.threw
    THEN StoreState(state.currentComponents, FALSE, "rejected")
    ELSE IF ~result.success
    THEN StoreState(state.currentComponents, FALSE, "Placeholder generation failed")
    ELSE StoreState(replacePlaceholder(call.snapshot, call.id, result.components),
                    FALSE, state.error)

\* generateUI and enhanceCurrentUI after their await: the response's
\* components replace the list; a rejection is caught and recorded
storeGenerationSettled(state, response) ==
    IF response.threw
    THEN StoreState(state.currentComponents, FALSE, "rejected")
    ELSE StoreState(response.components, FALSE, state.error)

\* A store generation up to its await: the flag is set, the error cleared
StoreCall(kind, id) ==
    /\ mops < MaxStoreOps
    /\ mops' = mops + 1
    /\ gcalls' = Append(gcalls, [kind |-> kind, id |-> id,
                                 snapshot |-> currentComponents])
    /\ isGenerating' = TRUE
    /\ storeError' = ""
    /\ UNCHANGED <<mop, targs, tctx, pvars, rvars, hvars, kvars, svars, qvars>>

\* generatePlaceholder up to its await: the list is read, generateUI called
GeneratePlaceholderStart == StoreCall("generatePlaceholder", "ph")

\* The store's generateUI up to its await
StoreGenerateUIStart == StoreCall("generateUI", "")

\* enhanceCurrentUI up to its await: nothing happens on an empty list
EnhanceCurrentUIStart ==
    /\ currentComponents # <<>>
    /\ StoreCall("enhanceCurrentUI", "")

\* The awaited generation of call i settles
GenerationSettles(i) ==
    /\ i \in 1..Len(gcalls)
    /\ LET state == StoreState(currentComponents, isGenerating, storeError)
       IN  IF gcalls[i].kind = "generatePlaceholder"
           THEN \E result \in PlaceholderResults :
                  LET after == generatePlaceholderSettled(state, gcalls[i], result)
                  IN  /\ currentComponents' = after.currentComponents
                      /\ isGenerating' = after.isGenerating
                      /\ storeError' = after.error
                      /\ mop' = [op |-> "generatePlaceholder", id |-> gcalls[i].id,
                                 success |-> ~result.threw /\ result.success,
                                 components |-> result.components,
                                 snapshot |-> gcalls[i].snapshot,
                                 returned |-> "undefined"]
           ELSE \E response \in StoreResponses :
                  LET after == storeGenerationSettled(state, response)
                  IN  /\ currentComponents' = after.currentComponents
                      /\ isGenerating' = after.isGenerating
                      /\ storeError' = after.error
                      /\ mop' = [op |-> gcalls[i].kind, id |-> "",
                                 success |-> ~response.threw,
                                 components |-> response.components,
                                 snapshot |-> gcalls[i].snapshot,
                                 returned |-> "undefined"]
    /\ gcalls' = SubSeq(gcalls, 1, i - 1) \o SubSeq(gcalls, i + 1, Len(gcalls))
    /\ UNCHANGED <<mops, targs, tctx, dom, cache, hpc, hbind, hctx, hres, hlog, hout,
                   hplaced, lastError, pvars, rvars, kvars, svars, qvars>>

\* insertComponentAfter is called on the store
InsertComponentAfter(targetComponentId, newComponent) ==
    /\ mops < MaxStoreOps
    /\ mops' = mops + 1
    /\ currentComponents' =
           insertComponentAfter(currentComponents, targetComponentId, newComponent)
    /\ mop' = [op |-> "insertComponentAfter", id |-> targetComponentId,
               success |-> TRUE, components |-> <<newComponent>>,
               snapshot |-> currentComponents,
               returned |-> insertComponentAfterReturns(currentComponents,
                                                        targetComponentId, newComponent)]
    /\ UNCHANGED <<gcalls, isGenerating, storeError, targs, tctx, dom, cache, hpc, hbind,
                   hctx, hres, hlog, hout, hplaced, lastError, pvars, rvars, kvars,
                   svars, qvars>>

StoreOpsNext ==
    \/ GeneratePlaceholderStart
    \/ StoreGenerateUIStart
    \/ EnhanceCurrentUIStart
    \/ \E i \in 1..MaxStoreOps : GenerationSettles(i)
    \/ \E target \in {"search", "panel", "btn", "gone"}, id \in {"n1", "n2"} :
           InsertComponentAfter(target, Generated(id))
\* Placeholder generations and insertions on the store, in any interleaving
StoreOpsSpec ==
    /\ \E components \in StoreComponents : InitFrom(components)
    /\ [][StoreOpsNext]_vars

\* The patch queue when every attemptFix call settles in the end
PatchLiveSpec == PatchSpec /\ WF_vars(\E i \in 1..MaxPatches : FixSettles(i))

BoundaryNext == PipelineNext \/ ElementRemoved \/ HandlerStep(1)
\* A pipeline run beside a fallback handler
BoundarySpec == Init /\ [][BoundaryNext]_vars

Next == PipelineNext \/ ResolveNext \/ HandlerNext
Spec == Init /\ [][Next]_vars

---------------------------------------------------------------------------
(* Properties of the pipeline *)

StepStatus(i) == pctx.steps[i].status

\* C1: each stage's operation is attempted at most 3 times in a run; a stage is
\* failed, with its error recorded, exactly when 3 attempts have failed; and
\* while a stage is failed no later stage has been started.
C1_RetryDiscipline ==
    \A i \in StepIndexes :
        /\ attempts[i] <= 3
        /\ failures[i] <= attempts[i]
        /\ (StepStatus(i) = "failed") <=> (attempts[i] = 3 /\ failures[i] = 3)
        /\ StepStatus(i) = "failed" =>
               /\ pctx.steps[i].error # <<>>
               /\ \A j \in StepIndexes :
                      j > i => attempts[j] = 0 /\ StepStatus(j) = "pending"

\* A run that ended with step 4 failed after its three attempts
C1_Witness ==
    ppc = "done" /\ StepStatus(4) = "failed" /\ attempts[4] = 3 /\ failures[4] = 3

\* C2: a step that is running, completed or failed has every earlier step
\* completed.
C2_Sequential ==
    \A i \in StepIndexes :
        StepStatus(i) \in {"running", "completed", "failed"} =>
            \A j \in StepIndexes : j < i => StepStatus(j) = "completed"

\* Step 4 is running after step 3 was skipped
C2_Witness ==
    /\ StepStatus(4) = "running"
    /\ pctx.steps[3].result = <<"No components to fetch">>
    /\ attempts[3] = 0

\* C3: a run that returned success: true has all five steps completed.
C3_SuccessAllCompleted ==
    (pret.returned /\ pret.success) =>
        \A i \in StepIndexes : StepStatus(i) = "completed"

\* A run returned success: true with components
C3_Witness == ppc = "done" /\ pret.returned /\ pret.success /\ pret.components # <<>>

\* C4: when every call the Analyze stage made to the analyzer failed, the run
\* ends with step 1 failed, steps 2-5 pending, and an empty list with
\* success: false.
C4_AnalyzerFailure ==
    (/\ ppc = "done"
     /\ analyzerCalls # <<>>
     /\ \A k \in 1..Len(analyzerCalls) : analyzerCalls[k] = "failed")
    => /\ StepStatus(1) = "failed"
       /\ \A j \in 2..5 : StepStatus(j) = "pending"
       /\ pret.components = <<>>
       /\ ~pret.success

\* C5: when the synthesizer's output holds no parseable JSON, the run returns
\* success: true with exactly one card whose content is that output.
C5_UnparseableSynthesis ==
    (/\ ppc = "done"
     /\ synthCalls # <<>>
     /\ \A k \in 1..Len(synthCalls) :
            /\ ~synthCalls[k].transportFails
            /\ JsonParse(extractJson(synthCalls[k].raw)).threw)
    => /\ pret.success
       /\ Len(pret.components) = 1
       /\ pret.components[1].type = "card"
       /\ pret.components[1].content = synthCalls[Len(synthCalls)].raw

\* C6: a run in which some stage used up its attempts returns an empty list
\* with success: false.
C6_ExhaustedRunFails ==
    (ppc = "done" /\ \E i \in StepIndexes : failures[i] = 3)
    => pret.returned /\ pret.components = <<>> /\ ~pret.success

\* A run ended by step 2 using up its attempts
C6_Witness ==
    ppc = "done" /\ failures[2] = 3 /\ pret.returned /\ pret.components = <<>>

---------------------------------------------------------------------------
(* Properties of the resolution chain and of the fallback handler *)

\* C7: no failure of the analyzer, the synthesizer, the single-fragment backend,
\* the document lookup or the cache store leaves generateUI or a fallback
\* handler as an exception: generateUI never throws and no handler's catch
\* lets its error out.
C7_NothingEscapes ==
    /\ ~pret.threw
    /\ \A h \in Handlers : ~hout[h].escaped

\* A failed run was returned and a handler's generation failure was caught
C7_Witness ==
    /\ pret.returned /\ ~pret.success /\ ~pret.threw
    /\ hout[1].ended = "failed" /\ hout[1].stage = "generate" /\ ~hout[1].escaped

\* C8: resolveEventHandler returns the declared value when it is callable,
\* otherwise the registered handler when the value is a string naming a
\* registry entry, otherwise a fallback handler bound to (componentId,
\* elementId, eventName); and what it returns is callable.
C8_Precedence ==
    resolved.called =>
        LET v == resolved.propValue
        IN  /\ resolved.handler.callable
            /\ resolved.handler =
                   IF v.typeof = "function"
                   THEN Handler("declared", TRUE, v.name, "", "", "")
                   ELSE IF v.typeof = "string" /\ v.name \in resolved.registered
                        THEN Handler("registry", TRUE, v.name, "", "", "")
                   ELSE createRecursiveHandler(resolved.componentId, resolved.elementId,
                                               resolved.propName)

\* The handler's statements in program order: the miss path and the hit path
HandlerOrderOnMiss == <<"capture", "probe", "generate", "place", "cachewrite">>
HandlerOrderOnHit == <<"capture", "probe", "place">>
\* C9: within one invocation the completed steps are, in order, a prefix of
\* capture, probe, generate, place, cachewrite (on a miss) or of capture, probe,
\* place (on a hit).
C9_HandlerOrder ==
    \A h \in Handlers :
        \E order \in {HandlerOrderOnMiss, HandlerOrderOnHit} :
            Len(hlog[h]) <= Len(order) /\ hlog[h] = SubSeq(order, 1, Len(hlog[h]))

\* An invocation went through all five steps
C9_Witness ==
    \E h \in Handlers : hlog[h] = HandlerOrderOnMiss /\ hout[h].ended = "completed"

\* C10: an invocation that failed in context capture or in the generation call
\* did not change the component list.
C10_FailureLeavesTree ==
    \A h \in Handlers :
        (hout[h].ended = "failed" /\ hout[h].stage \in {"capture", "generate"})
            => ~hplaced[h]

\* One invocation failed in capture and another in generation; the list is as
\* it was
C10_Witness ==
    /\ \E h \in Handlers : hout[h].ended = "failed" /\ hout[h].stage = "capture"
    /\ \E h \in Handlers : hout[h].ended = "failed" /\ hout[h].stage = "generate"
    /\ currentComponents = InitialComponents

---------------------------------------------------------------------------
(* Properties of the recursive cache *)

\* Invocation h's cache probe settles in this step
ProbeSettles(h) == hpc[h] = "probe" /\ hpc'[h] # "probe"

\* C11 (as stated): whenever an invocation's probe settles while the cache holds
\* an entry for the key of its captured context, the invocation places that
\* entry's fragment and returns, without a generation call.
C11_HeldEntryIsUsed ==
    [][\A h \in Handlers :
           (ProbeSettles(h) /\ createCacheKey(hctx[h]) \in DOMAIN cache)
               => /\ hpc'[h] = "done"
                  /\ hlog'[h] = HandlerOrderOnHit
                  /\ currentComponents' =
                         insertRecursiveUI(currentComponents,
                                           cache[createCacheKey(hctx[h])], hbind[h][1])
      ]_vars

\* C11 (amended): whenever an invocation's probe settles while the cache holds
\* an entry for the key of its captured context and the read of the store did
\* not fail, the invocation places that entry's fragment after its component
\* and returns, having issued no generation call. Otherwise (no entry, or a
\* failed read) the generation call is issued and the tree is left as it is.
C11_HitSkipsGeneration ==
    [][\A h \in Handlers :
           ProbeSettles(h) =>
               IF /\ createCacheKey(hctx[h]) \in DOMAIN cache
                  /\ lastError' # <<h, "getItem">>
               THEN /\ hpc'[h] = "done"
                    /\ hout'[h] = Completed
                    /\ hlog'[h] = HandlerOrderOnHit
                    /\ currentComponents' =
                           insertRecursiveUI(currentComponents,
                                             cache[createCacheKey(hctx[h])],
                                             hbind[h][1])
               ELSE /\ hpc'[h] = "generate"
                    /\ hlog'[h] = <<"capture", "probe">>
                    /\ currentComponents' = currentComponents
      ]_vars

\* An invocation found an entry, placed its fragment and returned without a
\* generation call
C11_Witness ==
    \E h \in Handlers :
        /\ hlog[h] = HandlerOrderOnHit
        /\ hout[h].ended = "completed"
        /\ hplaced[h]

---------------------------------------------------------------------------
(* Properties of the component list *)

RECURSIVE ChildIds(_)
\* The ids of the children of each component, in order
ChildIds(components) ==
    IF components = <<>> THEN <<>>
    ELSE [k \in 1..Len(Head(components).children) |-> Head(components).children[k].id]
         \o ChildIds(Tail(components))

\* The ids of all nodes of the tree
AllIds(components) ==
    [k \in 1..Len(components) |-> components[k].id] \o ChildIds(components)

\* No id occurs more than once
IdsDistinct(components) ==
    LET ids == AllIds(components)
    IN  \A i, j \in 1..Len(ids) : i # j => ids[i] # ids[j]

\* Invocation h places, in this step, a freshly generated fragment whose id is
\* already in the tree
PlacesStaleId(h) ==
    /\ hpc[h] = "generate" /\ hpc'[h] = "cachewrite"
    /\ hres'[h].hasUi
    /\ \E k \in 1..Len(AllIds(currentComponents)) :
           AllIds(currentComponents)[k] = hres'[h].ui.id

\* C12: the ids of the tree's nodes stay pairwise distinct: a step taken from a
\* tree with distinct ids leads to a tree with distinct ids, unless the step
\* places a freshly generated fragment whose id was already in the tree.
C12_IdsStayDistinct ==
    [][(IdsDistinct(currentComponents) /\ ~\E h \in Handlers : PlacesStaleId(h))
           => IdsDistinct(currentComponents')]_vars

---------------------------------------------------------------------------
(* Properties of the cache write *)

\* The entries of a list
IdSet(ids) == {ids[k] : k \in 1..Len(ids)}

\* The cache write of invocation h settles in this step
CacheWriteSettles(h) == hpc[h] = "cachewrite" /\ hpc'[h] # "cachewrite"

\* A component list holds a fragment at its top level
Holds(components, fragment) ==
    \E k \in 1..Len(components) : components[k] = fragment

\* C16: when the cache write of an invocation that generated and placed a
\* fragment fails, the tree is left as it is, placed fragment included, the
\* cache is left as it is, and the invocation completes without raising.
C16_WriteFailureKeepsFragment ==
    [][\A h \in Handlers :
           (CacheWriteSettles(h) /\ hplaced[h] /\ lastError' = <<h, "setItem">>)
               => /\ currentComponents' = currentComponents
                  /\ Holds(currentComponents', hres[h].ui)
                  /\ cache' = cache
                  /\ hpc'[h] = "done"
                  /\ hout'[h] = Completed
                  /\ hlog'[h] = HandlerOrderOnMiss
      ]_vars

\* An invocation placed its fragment, its cache write failed and it completed:
\* the fragment is in the tree and the cache is empty
C16_Witness ==
    \E h \in Handlers :
        /\ lastError = <<h, "setItem">>
        /\ hout[h] = Completed
        /\ hlog[h] = HandlerOrderOnMiss
        /\ hplaced[h]
        /\ cache = <<>>
        /\ \E id \in {"g1", "g2"} : Holds(currentComponents, Generated(id))

\* C17: the cache changes only when the cache write of an invocation settles
\* whose generation call succeeded before, and what is written is the generated
\* result under the key of the captured context; an invocation issues a cache
\* write only after its generation succeeded, so one whose capture or
\* generation failed has none.
C17_WriteOnlyAfterGeneration ==
    /\ [][\A h \in Handlers :
              ("cachewrite" \in IdSet(hlog'[h]) \/ hpc'[h] = "cachewrite")
                  => /\ Len(hlog'[h]) >= 3
                     /\ SubSeq(hlog'[h], 1, 3) = <<"capture", "probe", "generate">>
       ]_vars
    /\ [][cache' # cache
              => \E h \in Handlers :
                     /\ CacheWriteSettles(h)
                     /\ "generate" \in IdSet(hlog[h])
                     /\ ~hres[h].fromCache /\ hres[h].hasMetadata
                     /\ cache' = setItem(cache, createCacheKey(hctx[h]), hres[h])
       ]_vars
    /\ [](\A h \in Handlers :
              (hout[h].ended = "failed" /\ hout[h].stage \in {"capture", "generate"})
                  => "cachewrite" \notin IdSet(hlog[h]))

\* One invocation wrote its generated result to the cache and completed, and
\* another failed in generation and wrote nothing
C17_Witness ==
    \E h, g \in Handlers :
        /\ hlog[h] = HandlerOrderOnMiss /\ hout[h] = Completed
        /\ cache # <<>>
        /\ hout[g].ended = "failed" /\ hout[g].stage = "generate"
        /\ hlog[g] = <<"capture", "probe">>

\* C18: an invocation whose probe finds no entry issues its generation call
\* also while another invocation on the same element, with the same key, has
\* its own generation call in flight: nothing deduplicates them.
C18_MissesAreNotDeduplicated ==
    [][\A h, g \in Handlers :
           (/\ h # g
            /\ ProbeSettles(h)
            /\ hpc[g] = "generate"
            /\ hbind[g] = hbind[h]
            /\ createCacheKey(hctx[g]) = createCacheKey(hctx[h])
            /\ createCacheKey(hctx[h]) \notin DOMAIN cache)
               => hpc'[h] = "generate"
      ]_vars

\* Two invocations on the same element, with the same key, both missed the
\* empty cache and have their generation calls in flight
C18_Witness ==
    /\ cache = <<>>
    /\ hpc[1] = "generate" /\ hpc[2] = "generate"
    /\ hbind[1] = hbind[2]
    /\ createCacheKey(hctx[1]) = createCacheKey(hctx[2])
    /\ hlog[1] = <<"capture", "probe">> /\ hlog[2] = <<"capture", "probe">>

---------------------------------------------------------------------------
(* Properties of the cache key *)

\* The user input of a context, absent taken as the empty string
NormalizedInput(context) ==
    IF context.userInput.defined THEN context.userInput.text ELSE ""

\* The parent id of a context, absent taken as empty
ParentId(context) ==
    IF context.parentComponent.defined THEN context.parentComponent.id ELSE ""

\* Two contexts agree on everything but their captured siblings
AgreeButSiblings(c1, c2) ==
    /\ c1.triggerElement.id = c2.triggerElement.id
    /\ c1.triggerElement.type = c2.triggerElement.type
    /\ NormalizedInput(c1) = NormalizedInput(c2)
    /\ ParentId(c1) = ParentId(c2)

\* C13: two contexts that agree on trigger element id, trigger kind, normalized
\* user input, parent id and captured sibling ids derive the same key, whatever
\* their timestamps, viewports and tree snapshots.
C13_AgreeingContextsShareKey ==
    (/\ kkeys # <<>>
     /\ AgreeButSiblings(kctx[1], kctx[2])
     /\ kctx[1].siblingComponents = kctx[2].siblingComponents)
        => kkeys[1] = kkeys[2]

\* Keys were derived for two agreeing contexts, one with an absent and one with
\* an empty input, captured at different times in different viewports over
\* different component lists
C13_Witness ==
    /\ kkeys # <<>>
    /\ AgreeButSiblings(kctx[1], kctx[2])
    /\ kctx[1].siblingComponents = kctx[2].siblingComponents
    /\ kctx[1].userInput # kctx[2].userInput
    /\ kctx[1].timestamp # kctx[2].timestamp
    /\ kctx[1].environmentInfo.viewport # kctx[2].environmentInfo.viewport
    /\ kctx[1].componentHierarchy # kctx[2].componentHierarchy
    /\ kctx[1].componentCount # kctx[2].componentCount

\* C14: two contexts whose captured sibling lists hold the same set of ids, in
\* whatever order, and that agree on every other key field derive the same key.
C14_SiblingOrderIndependent ==
    (/\ kkeys # <<>>
     /\ AgreeButSiblings(kctx[1], kctx[2])
     /\ Len(kctx[1].siblingComponents) = Len(kctx[2].siblingComponents)
     /\ IdSet(kctx[1].siblingComponents) = IdSet(kctx[2].siblingComponents))
        => kkeys[1] = kkeys[2]

---------------------------------------------------------------------------
(* Properties of the cache store *)

\* The puts made before the latest get that derive its key
PutsOfKey == {i \in 1..got.after : puts[i].key = got.key}

\* The greatest member of a non-empty set of numbers
Latest(indices) == CHOOSE i \in indices : \A j \in indices : j <= i

\* C15 (as stated): a get returns the result of the last put that derived its
\* key, whenever there was one.
C15_GetReturnsLastPut ==
    (got.called /\ PutsOfKey # {})
        => got.found /\ got.value = puts[Latest(PutsOfKey)].result

\* C15 (amended): a get whose store read does not fail returns the result of
\* the last put that derived its key and whose store write did not fail, and
\* nothing when there was none; earlier results are not merged in.
C15_LastWriterWins ==
    (got.called /\ ~got.failed)
        => LET stored == {i \in PutsOfKey : ~puts[i].failed}
           IN  IF stored = {} THEN ~got.found
               ELSE got.found /\ got.value = puts[Latest(stored)].result

\* Two puts with different results were stored under the key, and the get
\* returned the second result
C15_Witness ==
    /\ got.called /\ ~got.failed /\ got.found
    /\ \E i, j \in PutsOfKey :
           /\ i < j /\ j = Latest(PutsOfKey)
           /\ ~puts[i].failed /\ ~puts[j].failed
           /\ puts[i].result # puts[j].result
           /\ got.value = puts[j].result

---------------------------------------------------------------------------
(* Properties of the patch queue *)

\* C19: at any time at most one attemptFix call started by the patch queue is
\* in flight, and none is while isProcessing is clear.
C19_OneFixInFlight ==
    /\ Len(inFlight) <= 1
    /\ (inFlight # <<>>) <=> isProcessing

\* A fix attempt is in flight while two more requests wait in the queue
C19_Witness ==
    /\ Len(inFlight) = 1
    /\ Len(patchQueue) = 2
    /\ isProcessing

\* C20: the requests taken for processing are, in order, the first of the
\* requests queued, and the queue holds the others in the order of their
\* queuePatch calls.
C20_StrictFifo ==
    queued = taken \o patchQueue

\* Two different requests were taken, the second after the first's fix attempt
\* settled, while a third, queued during a fix attempt, waits
C20_Witness ==
    /\ Len(taken) = 2 /\ taken[1] # taken[2]
    /\ taken[1].componentId # "unknown"
    /\ Len(inFlight) = 1 /\ inFlight[1].request = taken[2]
    /\ Len(patchQueue) = 1 /\ patchQueue[1] \notin {taken[1], taken[2]}

\* C21: when every fix attempt settles, the n-th request passed to queuePatch
\* is eventually taken for processing, for every n; and whenever no fix
\* attempt is in flight the queue is empty and the processing flag is clear.
C21_QueueDrains ==
    /\ \A n \in 1..MaxPatches : (Len(queued) >= n) ~> (Len(taken) >= n)
    /\ [](inFlight = <<>> => (patchQueue = <<>> /\ ~isProcessing))

\* Three requests, one of them for a missing component, were all taken, the
\* last fix attempt settled, the queue is empty and the flag clear
C21_Witness ==
    /\ Len(queued) = 3 /\ taken = queued
    /\ \E n \in 1..3 : queued[n].componentId = "unknown"
    /\ \E n \in 1..3 : queued[n].componentId # "unknown"
    /\ inFlight = <<>> /\ patchQueue = <<>> /\ ~isProcessing

---------------------------------------------------------------------------
(* Properties of the context tiers *)

\* C22: the level of the captured context is a fixed function of the generation
\* type: error-fix gives minimal, simple-interaction standard,
\* complex-interaction rich and recursive full, whatever the component list,
\* the user input and the other options are.
C22_TierByType ==
    tctx # <<>> =>
        /\ targs.generationType = "error-fix" => tctx[1].level = "minimal"
        /\ targs.generationType = "simple-interaction" => tctx[1].level = "standard"
        /\ targs.generationType = "complex-interaction" => tctx[1].level = "rich"
        /\ targs.generationType = "recursive" => tctx[1].level = "full"

\* An error-fix capture over the longest list, with user input and an error
\* message, gave a minimal context
C22_Witness ==
    /\ tctx # <<>>
    /\ targs.generationType = "error-fix"
    /\ Len(targs.components) = Len(WideComponents) + 4
    /\ targs.options.userInput.defined /\ targs.options.errorMessage.defined
    /\ tctx[1].level = "minimal"

\* C23: a rich or full context holds at most 3 sibling components, none of
\* them the trigger, and a full context at most 5 hierarchy components,
\* however long the component list is.
C23_BoundedNeighbours ==
    tctx # <<>> =>
        /\ tctx[1].level \in {"rich", "full"} =>
               /\ Len(tctx[1].siblingComponents) <= 3
               /\ tctx[1].triggerId \notin IdSet(tctx[1].siblingComponents)
        /\ tctx[1].level = "full" => Len(tctx[1].componentHierarchy) <= 5

\* A full context captured for a top-level trigger over a list of more than
\* five components holds three siblings and five hierarchy components
C23_Witness ==
    /\ tctx # <<>>
    /\ tctx[1].level = "full"
    /\ Len(targs.components) > 5
    /\ targs.elementId = "search"
    /\ Len(tctx[1].siblingComponents) = 3
    /\ Len(tctx[1].componentHierarchy) = 5

---------------------------------------------------------------------------
(* Claims about the store's list operations *)

RECURSIVE Nodes(_)
\* The nodes of a tree in document order, each without its children
Nodes(components) ==
    IF components = <<>> THEN <<>>
    ELSE <<WithChildren(Head(components), <<>>)>>
         \o Nodes(Head(components).children) \o Nodes(Tail(components))

\* The ids of the nodes of a tree
TreeIds(components) == {n.id : n \in IdSet(Nodes(components))}

RECURSIVE ReplacedAnywhere(_, _, _)
\* The tree with every node of a given id, at any depth, replaced by a list
ReplacedAnywhere(components, id, replacement) ==
    IF components = <<>> THEN <<>>
    ELSE (IF Head(components).id = id THEN replacement
          ELSE <<WithChildren(Head(components),
                              ReplacedAnywhere(Head(components).children, id,
                                               replacement))>>)
         \o ReplacedAnywhere(Tail(components), id, replacement)

RECURSIVE InsertedAsNextSibling(_, _, _)
\* The tree with a node placed right after the node of a given id, at any depth
InsertedAsNextSibling(components, id, node) ==
    IF components = <<>> THEN <<>>
    ELSE (IF Head(components).id = id THEN <<Head(components), node>>
          ELSE <<WithChildren(Head(components),
                              InsertedAsNextSibling(Head(components).children, id,
                                                    node))>>)
         \o InsertedAsNextSibling(Tail(components), id, node)

\* A generatePlaceholder call settles in this step
PlaceholderSettles ==
    Len(gcalls') < Len(gcalls) /\ mop'.op = "generatePlaceholder"

\* A generatePlaceholder call settles with success in this step, and the list
\* is still the one the call read at its start
PlaceholderReplaced ==
    PlaceholderSettles /\ mop'.success /\ mop'.snapshot = currentComponents

\* insertComponentAfter runs in this step
InsertStep == mops' = mops + 1 /\ gcalls' = gcalls

\* C24: for a tree holding the placeholder id anywhere, at any depth, a
\* successful replacement yields the tree without that id, the replacement
\* nodes at the placeholder's former position in document order, and every
\* other node unchanged.
C24_ReplacedAtAnyDepth ==
    [][(PlaceholderReplaced /\ mop'.id \in TreeIds(currentComponents)) =>
          /\ mop'.id \notin TreeIds(currentComponents')
          /\ currentComponents' =
                 ReplacedAnywhere(currentComponents, mop'.id, mop'.components)]_vars

\* C25: replacing an id that is absent from the tree appends the replacement
\* nodes at the root, so that generated content is never dropped.
C25_AbsentIdAppends ==
    [][(PlaceholderReplaced /\ mop'.id \notin TreeIds(currentComponents)) =>
          currentComponents' = currentComponents \o mop'.components]_vars

\* C26: after a successful generation the placeholder id is no longer in the
\* tree, and a successful generation for an id that is already gone leaves
\* the tree as it is.
C26_ReplacedOnce ==
    [][(PlaceholderSettles /\ mop'.success) =>
          /\ mop'.id \notin TreeIds(currentComponents')
          /\ mop'.id \notin TreeIds(currentComponents) =>
                 currentComponents' = currentComponents]_vars

\* C27: inserting after a target id that is in the tree places the new node
\* right after the target, the node count grows by one, and the other nodes
\* keep their places.
C27_InsertedAfterTarget ==
    [][(InsertStep /\ mop'.id \in TreeIds(currentComponents)) =>
          /\ currentComponents' =
                 InsertedAsNextSibling(currentComponents, mop'.id, mop'.components[1])
          /\ Len(Nodes(currentComponents')) = Len(Nodes(currentComponents)) + 1]_vars

\* C28: inserting after a target id that is nowhere in the tree appends the
\* new node as the last root node and leaves the existing nodes unchanged.
C28_AbsentTargetAppends ==
    [][(InsertStep /\ mop'.id \notin TreeIds(currentComponents)) =>
          /\ currentComponents' = Append(currentComponents, mop'.components[1])
          /\ SubSeq(currentComponents', 1, Len(currentComponents)) = currentComponents]_vars

\* An insertion after an id that was nowhere in the list ended with the new
\* node last and the earlier nodes before it
C28_Witness ==
    /\ mop.op = "insertComponentAfter"
    /\ mop.id = "gone"
    /\ mop.id \notin TreeIds(mop.snapshot)
    /\ currentComponents = Append(mop.snapshot, mop.components[1])

\* C29: an insertion that fell back to appending at the root hands its
\* caller a value different from the one an insertion at the target hands
\* back.
C29_FallbackIsReported ==
    [][(InsertStep /\ FindIndex(currentComponents, mop'.id, 1) = 0) =>
          mop'.returned #
              insertComponentAfterReturns(<<mop'.components[1]>>,
                                          mop'.components[1].id,
                                          mop'.components[1])]_vars

\* C30: a handler bound to an element that is no longer in the document is
\* still callable, and its invocation completes context capture and goes on
\* to generation and placement: no invocation ends at the capture step.
C30_RemovedElementStillCaptured ==
    \A h \in Handlers :
        hpc[h] = "done" =>
            /\ hout[h] # HandlerCatch("capture")
            /\ hlog[h] # <<>>

\* A generatePlaceholder call settles in this step with a failure: the
\* pipeline reported no success, or the call was rejected
PlaceholderFails == PlaceholderSettles /\ ~mop'.success

\* C31: a failed placeholder generation leaves the component tree as it was,
\* with the placeholder still in it, records an error and clears the
\* generating flag.
C31_FailureLeavesPlaceholder ==
    [][PlaceholderFails =>
          /\ currentComponents' = currentComponents
          /\ mop'.id \in TreeIds(currentComponents) =>
                 mop'.id \in TreeIds(currentComponents')
          /\ storeError' # ""
          /\ ~isGenerating']_vars

\* A placeholder generation failed on a list that holds the placeholder: the
\* list is the one read before the trigger, the error is set, the flag clear
C31_Witness ==
    /\ mop.op = "generatePlaceholder" /\ ~mop.success
    /\ "ph" \in TreeIds(currentComponents)
    /\ currentComponents = mop.snapshot
    /\ storeError # "" /\ ~isGenerating

\* C32: stage 3 calls the fetcher exactly when stage 2 reported a missing
\* primitive; when none is missing, step 3 is completed with the
\* nothing-to-fetch result, no fetch is made, and stage 4 is started.
C32_FetchIffMissing ==
    IF StepStatus(2) = "completed"
    THEN LET missing == pctx.steps[2].result.unavailable
         IN  /\ attempts[3] > 0 <=> missing # <<>>
             /\ missing = <<>> =>
                    /\ StepStatus(3) = "completed"
                    /\ pctx.steps[3].result = <<"No components to fetch">>
                    /\ attempts[4] > 0 /\ StepStatus(4) # "pending"
    ELSE attempts[3] = 0

\* A run with nothing missing completed step 4 without any fetch
C32_Witness ==
    /\ StepStatus(2) = "completed" /\ StepStatus(4) = "completed"
    /\ pctx.steps[2].result.unavailable = <<>>
    /\ pctx.steps[3].result = <<"No components to fetch">>
    /\ attempts[3] = 0

\* A run with a missing primitive completed step 3 through the fetcher
C32_FetchedWitness ==
    /\ StepStatus(3) = "completed"
    /\ pctx.steps[2].result.unavailable # <<>>
    /\ attempts[3] > 0

\* The ids of the nodes that insertComponentAfter places
InsertedIds == {"n1", "n2"}

\* C33: a node inserted into the tree while a placeholder generation was in
\* flight (it is in the tree now and was not in the list the generation read
\* at its start) is still in the tree after that generation completes.
C33_ConcurrentInsertKept ==
    [][PlaceholderSettles =>
          \A id \in (InsertedIds \cap TreeIds(currentComponents))
                        \ TreeIds(mop'.snapshot) :
              id \in TreeIds(currentComponents')]_vars

---------------------------------------------------------------------------
(* Claims about what the patch queue does to the tree *)

\* The positions in taken of the requests taken in this step
NewlyTaken == (Len(taken) + 1)..Len(taken')

\* A request taken in this step names a component that is not in the list
\* processQueue looks it up in
TakenMissing(k) == ~findComponent(currentComponents', taken'[k].componentId).found

\* C34: a request whose component id is not found in the current tree is
\* dropped: attemptFix is not called for it, the tree is not changed on its
\* account (a queuePatch step leaves the tree as it is, a settling step
\* changes it only by the settled fix), and processing goes on to the next
\* queued request.
C34_MissingDropped ==
    [][/\ \A k \in NewlyTaken : TakenMissing(k) => k \notin attempted'
       /\ (\E k \in NewlyTaken : TakenMissing(k)) =>
              /\ currentComponents' =
                     IF Len(queued') > Len(queued) THEN currentComponents
                     ELSE applyFix(currentComponents, lastFix'.request.componentId,
                                   lastFix'.fixedCode)
              /\ ~isProcessing' => patchQueue' = <<>>]_vars

\* A request for a missing component, queued behind a fix attempt, was taken
\* and dropped without a fix attempt, and the request after it was started
C34_Witness ==
    /\ Len(taken) = 3 /\ taken[2].componentId = "unknown"
    /\ attempted = {1, 3}
    /\ Len(inFlight) = 1 /\ inFlight[1].request = taken[3]
    /\ lastFix.settled /\ lastFix.fixedCode = NoFix
    /\ currentComponents = InitialComponents

\* An attemptFix call settles in this step
FixStep ==
    /\ inFlight # <<>> /\ queued' = queued
    /\ taken' # taken \/ inFlight' = <<>>

\* The ids of the nodes of a tree, in document order
NodeIds(components) == [k \in 1..Len(Nodes(components)) |-> Nodes(components)[k].id]

\* C35: whenever the patch queue obtains a parseable fix for a component found
\* in the tree, at the root or inside another component's children, the node
\* with that id afterwards carries the patched content.
C35_FixReachesNode ==
    [][(FixStep /\ lastFix'.fixedCode.kind = "component") =>
          LET node == findComponent(currentComponents', lastFix'.request.componentId)
          IN  node.found /\ node.component.content = <<"patched">>]_vars

\* C36: applying a fix never changes which component a tree position holds:
\* after a request for a component is processed the tree has the same ids at
\* the same positions as before, also when the fix comes from an earlier
\* request with the same error message for another component.
C36_FixKeepsIdentity ==
    [][FixStep => NodeIds(currentComponents') = NodeIds(currentComponents)]_vars

\* C37: the store's isGenerating flag is true whenever a generation started
\* through the store (generateUI, enhanceCurrentUI, generatePlaceholder) is
\* still in flight, also when several overlap, and false once all of them
\* have completed.
C37_FlagTracksGenerations ==
    isGenerating <=> gcalls # <<>>

---------------------------------------------------------------------------
(* Claims about the cache key as a number *)

\* C38: two contexts that derive the same key agree on trigger id, trigger
\* kind, user input, parent id and sibling ids: the 32-bit hash and the
\* absolute value map no two different key projections to one key.
C38_DistinctProjectionsDistinctKeys ==
    (kkeys # <<>> /\ kkeys[1] = kkeys[2]) =>
        /\ AgreeButSiblings(kctx[1], kctx[2])
        /\ kctx[1].siblingComponents = kctx[2].siblingComponents

---------------------------------------------------------------------------
(* Claims about the steps of a failed run *)

\* C39: when a run has ended with success: false, exactly one step is failed,
\* every step before it is completed, every step after it is pending, and no
\* step is running.
C39_FailedRunShape ==
    (ppc = "done" /\ pret.returned /\ ~pret.success) =>
        \E f \in StepIndexes :
            /\ StepStatus(f) = "failed"
            /\ \A i \in StepIndexes :
                  /\ i < f => StepStatus(i) = "completed"
                  /\ i > f => StepStatus(i) = "pending"

\* A run failed at step 4 after step 3 was skipped: steps 1 to 3 completed,
\* step 5 pending
C39_Witness ==
    /\ ppc = "done" /\ pret.returned /\ ~pret.success
    /\ StepStatus(4) = "failed" /\ StepStatus(5) = "pending"
    /\ StepStatus(3) = "completed" /\ attempts[3] = 0


=============================================================================
